---- MODULE Spec2Model ----
(***************************************************************************)
(* A model of woffTools: the WOFF writer (WOFFWriter), the font object     *)
(* that drives it (WOFFFont.save) and the structural validator             *)
(* (tools/validate.py).                                                    *)
(*                                                                         *)
(* Data representation.  A byte string is a sequence of cells.  A cell is  *)
(* a tuple of integers: <<b>> is the byte b (0..255).  zlib streams are    *)
(* not computed bit by bit: the stream that zlib.compress makes of the     *)
(* bytes c is the cell <<-1>> \o c followed by ZLen(c)-1 cells <<-2>>, so  *)
(* that a stream has a length, can be sliced, truncated and overwritten    *)
(* like any other bytes, and inflates only when it is whole.               *)
(*                                                                         *)
(* Numbers.  Lengths and offsets are integers.  Checksums need the whole   *)
(* 32-bit range, so a checksum is a pair <<hi, lo>> standing for           *)
(* hi * 2^16 + lo with lo in 0..65535; hi is unbounded (a Python integer). *)
(***************************************************************************)
EXTENDS Integers, Sequences, FiniteSets, TLC

Min(a, b) == IF a < b THEN a ELSE b
Max(a, b) == IF a > b THEN a ELSE b

RECURSIVE SumSeq(_)
SumSeq(s) == IF s = <<>> THEN 0 ELSE Head(s) + SumSeq(Tail(s))

(* ---------------- cells ---------------- *)

ZCont == <<-2>>
ZStart(content) == <<-1>> \o content
\* the value a cell has when it is read as a plain byte (0x78 0xDA.. for zlib)
ByteVal(cell) == IF cell[1] >= 0 THEN cell[1] ELSE IF cell[1] = -1 THEN 120 ELSE 218
Zeros(n) == [i \in 1..n |-> <<0>>]
Cells(ints) == [i \in 1..Len(ints) |-> <<ints[i]>>]
Ints(cells) == [i \in 1..Len(cells) |-> ByteVal(cells[i])]
\* Python data[a:b] and data[a:], a and b not negative
Slice(data, a, b) ==
    LET lo == Min(a, Len(data))
        hi == Min(b, Len(data))
    IN IF hi <= lo THEN <<>> ELSE SubSeq(data, lo + 1, hi)
SliceFrom(data, a) == Slice(data, a, Len(data))

(* ---------------- wide integers ---------------- *)

WNorm(hi, lo) == <<hi + (lo \div 65536), lo % 65536>>
WAdd(a, b) == WNorm(a[1] + b[1], a[2] + b[2])
WSub(a, b) == WNorm(a[1] - b[1], a[2] - b[2])
\* x & 0xffffffff
WMask32(a) == <<a[1] % 65536, a[2]>>
RECURSIVE WSum(_)
WSum(s) == IF s = <<>> THEN <<0, 0>> ELSE WAdd(Head(s), WSum(Tail(s)))

\* struct.pack of the field widths used by the record formats
U16Cells(n) == << <<(n \div 256) % 256>>, <<n % 256>> >>
U32Cells(n) == << <<(n \div 16777216) % 256>>, <<(n \div 65536) % 256>>,
                  <<(n \div 256) % 256>>, <<n % 256>> >>
WCells(w) == U16Cells(w[1]) \o U16Cells(w[2])
\* struct.unpack
ByteAt(data, i) == IF i >= 1 /\ i <= Len(data) THEN ByteVal(data[i]) ELSE 0
U16At(data, pos) == ByteAt(data, pos + 1) * 256 + ByteAt(data, pos + 2)
U32At(data, pos) == (U16At(data, pos) * 65536) + U16At(data, pos + 2)
WAt(data, pos) == <<U16At(data, pos), U16At(data, pos + 2)>>
\* struct ">l": the same four bytes read as a signed number
WSignedAt(data, pos) ==
    LET w == WAt(data, pos) IN IF w[1] >= 32768 THEN <<w[1] - 65536, w[2]>> ELSE w

(* ---------------- tags ---------------- *)

TagHead == <<104, 101, 97, 100>>
TagCFF  == <<67, 70, 70, 32>>
TagDSIG == <<68, 83, 73, 71>>
TagGlyf == <<103, 108, 121, 102>>
TagCells(tag) == Cells(tag)
TagAt(data, pos) == [i \in 1..4 |-> ByteAt(data, pos + i)]

RECURSIVE LexLess(_, _)
LexLess(a, b) ==
    IF b = <<>> THEN FALSE
    ELSE IF a = <<>> THEN TRUE
    ELSE IF Head(a) # Head(b) THEN Head(a) < Head(b)
    ELSE LexLess(Tail(a), Tail(b))

\* sorted(tags)
RECURSIVE SortTags(_)
SortTags(S) ==
    IF S = {} THEN <<>>
    ELSE LET m == CHOOSE t \in S : \A u \in S : u = t \/ LexLess(t, u)
         IN <<m>> \o SortTags(S \ {m})

Range(s) == {s[i] : i \in 1..Len(s)}

(* ---------------- zlib ---------------- *)

\* length of the stream zlib.compress makes: 8 bytes of framing and one
\* symbol for every byte that is not the fourth or later of a run
ZLen(c) ==
    8 + Cardinality({i \in 1..Len(c) :
            ~(i > 3 /\ c[i] = c[i-1] /\ c[i-1] = c[i-2] /\ c[i-2] = c[i-3])})
zlibCompress(data) ==
    LET c == Ints(data) IN <<ZStart(c)>> \o [i \in 1..(ZLen(c) - 1) |-> ZCont]
\* zlib.decompress raises zlib.error unless the bytes start with a whole stream
zlibOk(data) ==
    /\ Len(data) >= 1
    /\ data[1][1] = -1
    /\ LET n == ZLen(Tail(data[1]))
       IN Len(data) >= n /\ \A i \in 2..n : data[i] = ZCont
zlibDecompress(data) == Cells(Tail(data[1]))

(* ---------------- helpers of woffTools/__init__.py ---------------- *)

woffHeaderSize == 44
woffDirectoryEntrySize == 20
sfntDirectorySize == 12
sfntDirectoryEntrySize == 16

\* a padding that adds four bytes to a length that is already aligned
calc4BytePaddedLengthPlusFour(length) == length + (4 - (length % 4))

\* a padding that adds nothing
calc4BytePaddedLengthNone(length) == length

calc4BytePaddedLength(length) == ((length + 3) \div 4) * 4

\* fontTools calcChecksum: zero-pad to 4 bytes, sum of big-endian longs
calcChecksum(data) ==
    LET nw == (Len(data) + 3) \div 4
        hiSum == SumSeq([k \in 1..nw |-> U16At(data, 4 * k - 4)])
        loSum == SumSeq([k \in 1..nw |-> U16At(data, 4 * k - 2)])
    IN WMask32(WNorm(hiSum, loSum))

calcTableChecksum(tag, data) ==
    IF tag = TagHead
    THEN WMask32(calcChecksum(Slice(data, 0, 8) \o Zeros(4) \o SliceFrom(data, 12)))
    ELSE WMask32(calcChecksum(data))

RECURSIVE maxPowerOfTwoLoop(_, _)
maxPowerOfTwoLoop(value, exponent) ==
    IF value = 0 THEN exponent ELSE maxPowerOfTwoLoop(value \div 2, exponent + 1)
maxPowerOfTwo(value) == Max(maxPowerOfTwoLoop(value, 0) - 1, 0)
getSearchRange(numTables) ==
    LET exponent == maxPowerOfTwo(numTables)
    IN [searchRange |-> (2 ^ exponent) * 16,
        entrySelector |-> exponent,
        rangeShift |-> numTables * 16 - (2 ^ exponent) * 16]

\* the 12-byte sfnt header
sfntHeaderCells(flavor, numTables) ==
    LET sr == getSearchRange(numTables)
    IN TagCells(flavor) \o U16Cells(numTables) \o U16Cells(sr.searchRange)
        \o U16Cells(sr.entrySelector) \o U16Cells(sr.rangeShift)
\* one 16-byte sfnt directory entry
sfntEntryCells(tag, e) ==
    TagCells(tag) \o WCells(e.checkSum) \o U32Cells(e.offset) \o U32Cells(e.length)

RECURSIVE ConcatAll(_)
ConcatAll(ss) == IF ss = <<>> THEN <<>> ELSE Head(ss) \o ConcatAll(Tail(ss))

\* tables: tag -> [offset, length, checkSum]
calcHeadCheckSumAdjustment(flavor, tables) ==
    LET numTables == Cardinality(DOMAIN tables)
        tags == SortTags(DOMAIN tables)
        directory == sfntHeaderCells(flavor, numTables)
            \o ConcatAll([i \in 1..Len(tags) |-> sfntEntryCells(tags[i], tables[tags[i]])])
        checkSums == [i \in 1..Len(tags) |-> tables[tags[i]].checkSum]
        total == WAdd(WSum(checkSums), calcChecksum(directory))
    IN WMask32(WSub(<<45488, 44986>>, total))

(* ---------------- WOFFWriter ---------------- *)

\* a WOFFDirectoryEntry with the fields _prepTable sets
WOFFDirectoryEntry(tag, origLength, origChecksum, compLength) ==
    [tag |-> tag, offset |-> 0, origLength |-> origLength,
     origChecksum |-> origChecksum, compLength |-> compLength]

\* a _prepTable that keeps the stream when it is as long as the table
prepTableKeepsEqualStream(tag, data, given, entryOnly) ==
    IF entryOnly
    THEN [entry |-> WOFFDirectoryEntry(tag, given[1].origLength,
                        calcTableChecksum(tag, data), 0),
          data |-> data]
    ELSE IF given = <<>>
    THEN IF Len(data) < Len(zlibCompress(data))
         THEN [entry |-> WOFFDirectoryEntry(tag, Len(data),
                            calcTableChecksum(tag, data), Len(data)),
               data |-> data]
         ELSE [entry |-> WOFFDirectoryEntry(tag, Len(data),
                            calcTableChecksum(tag, data), Len(zlibCompress(data))),
               data |-> zlibCompress(data)]
    ELSE [entry |-> WOFFDirectoryEntry(tag, given[1].origLength,
                        given[1].origChecksum, given[1].compLength),
          data |-> data]

\* An optional argument is <<>> for None and <<v>> for the value v.  The
\* keyword arguments origLength, origChecksum and compLength travel together
\* as `given`: <<>> or <<[origLength, origChecksum, compLength]>>.
prepTable(tag, data, given, entryOnly) ==
    IF entryOnly
    THEN [entry |-> WOFFDirectoryEntry(tag, given[1].origLength,
                        calcTableChecksum(tag, data), 0),
          data |-> data]
    ELSE IF given = <<>>
    THEN LET origLength == Len(data)
             origChecksum == calcTableChecksum(tag, data)
             compData == zlibCompress(data)
         IN IF origLength <= Len(compData)
            THEN [entry |-> WOFFDirectoryEntry(tag, origLength, origChecksum, origLength),
                  data |-> data]
            ELSE [entry |-> WOFFDirectoryEntry(tag, origLength, origChecksum, Len(compData)),
                  data |-> compData]
    ELSE [entry |-> WOFFDirectoryEntry(tag, given[1].origLength,
                        given[1].origChecksum, given[1].compLength),
          data |-> data]

\* WOFFWriter.__init__
WOFFWriter(numTables, flavor, majorVersion, minorVersion, recalculateHeadChecksum) ==
    [flavor |-> flavor,
     length |-> woffHeaderSize + (numTables * woffDirectoryEntrySize),
     totalSFNTSize |-> sfntDirectorySize + (numTables * sfntDirectoryEntrySize),
     numTables |-> numTables,
     majorVersion |-> majorVersion,
     minorVersion |-> minorVersion,
     metaOffset |-> 0, metaOrigLength |-> 0, metaLength |-> 0,
     privOffset |-> 0, privLength |-> 0, reserved |-> 0,
     recalculateHeadChecksum |-> recalculateHeadChecksum,
     tables |-> <<>>,
     metadata |-> <<>>,
     privateData |-> <<>>,
     tableDataEnd |-> 0,
     metadataEnd |-> 0]

\* self.tables[tag] = value
DictSet(d, key, value) ==
    [k \in (DOMAIN d) \cup {key} |-> IF k = key THEN value ELSE d[k]]

\* the results of the writer's operations: the writer, and the exception
\* raised ("" when none)
Ok(w) == [w |-> w, err |-> ""]
Raise(w, e) == [w |-> w, err |-> e]

storeTable(w, tag, p) ==
    Ok([w EXCEPT !.tables = DictSet(w.tables, tag,
            [index |-> Cardinality(DOMAIN w.tables), entry |-> p.entry, data |-> p.data])])

\* the branch of setTable that keeps head uncompressed until close
setHeadTable(w, tag, d) ==
    storeTable(w, tag, [entry |-> prepTable(tag, d,
                            <<[origLength |-> Len(d), origChecksum |-> <<0, 0>>,
                               compLength |-> 0]>>, TRUE).entry,
                        data |-> d])

setTable(w, tag, data, given) ==
    IF w.recalculateHeadChecksum /\ tag = TagHead
    THEN IF given # <<>> /\ given[1].compLength < given[1].origLength
         THEN IF ~zlibOk(data) THEN Raise(w, "zlib.error")
              ELSE setHeadTable(w, tag, zlibDecompress(data))
         ELSE setHeadTable(w, tag, data)
    ELSE storeTable(w, tag, prepTable(tag, data, given, FALSE))

\* given: <<>> or <<[metaOrigLength, metaLength]>>
setMetadata(w, data, given) ==
    IF data = <<>> THEN w
    ELSE IF given = <<>>
    THEN LET comp == zlibCompress(data)
         IN [w EXCEPT !.metaOrigLength = Len(data), !.metaLength = Len(comp),
                      !.metadata = <<comp>>]
    ELSE [w EXCEPT !.metaOrigLength = given[1].metaOrigLength,
                   !.metaLength = given[1].metaLength,
                   !.metadata = <<data>>]

setPrivateData(w, data) ==
    IF data = <<>> THEN w
    ELSE [w EXCEPT !.privLength = Len(data), !.privateData = <<data>>]

\* sorted(self.tables.values()) orders the (index, entry, data) tuples by
\* index; two tuples with the same index are ordered by comparing the entry
\* objects, which is an order by address: any order of the ties can come out.
Perms(S) ==
    {s \in [1..Cardinality(S) -> S] : \A i, j \in 1..Cardinality(S) : i # j => s[i] # s[j]}
tableOrder(w) ==
    {o \in Perms(DOMAIN w.tables) :
        \A i, j \in 1..Len(o) : i < j => w.tables[o[i]].index <= w.tables[o[j]].index}

PosIn(o, t) == CHOOSE i \in 1..Len(o) : o[i] = t

\* a conformance check that does not compare the checksum
checkTableConformanceNoChecksum(entry, data) ==
    IF entry.origLength < entry.compLength
    THEN "WOFFLibError: origLength and compLength are not correct"
    ELSE IF entry.origLength > entry.compLength /\ ~zlibOk(data)
    THEN "zlib.error"
    ELSE IF entry.origLength # Len(IF entry.origLength > entry.compLength
                                   THEN zlibDecompress(data) ELSE data)
    THEN "WOFFLibError: origLength is not correct"
    ELSE IF entry.compLength # Len(data)
    THEN "WOFFLibError: compLength is not correct"
    ELSE ""

checkTableConformance(entry, data) ==
    IF entry.origLength < entry.compLength
    THEN "WOFFLibError: origLength and compLength are not correct"
    ELSE IF entry.origLength > entry.compLength /\ ~zlibOk(data)
    THEN "zlib.error"
    ELSE LET origData == IF entry.origLength > entry.compLength
                         THEN zlibDecompress(data) ELSE data
         IN IF entry.origLength # Len(origData)
            THEN "WOFFLibError: origLength is not correct"
            ELSE IF entry.origChecksum # calcTableChecksum(entry.tag, origData)
            THEN "WOFFLibError: origChecksum is not correct"
            ELSE IF entry.compLength # Len(data)
            THEN "WOFFLibError: compLength is not correct"
            ELSE ""

\* the end of _handleHeadChecksum: the assert, then the head entry and data
storeHead(w, old, p) ==
    IF old.entry.origChecksum # p.entry.origChecksum
    THEN Raise(w, "AssertionError")
    ELSE Ok([w EXCEPT !.tables[TagHead] =
             [index |-> old.index,
              entry |-> [old.entry EXCEPT !.origLength = p.entry.origLength,
                                          !.compLength = p.entry.compLength],
              data |-> p.data]])

\* the sfnt offsets of the tables along the write order
sfntTables(w, order) ==
    [t \in DOMAIN w.tables |->
        [offset |-> sfntDirectorySize + (sfntDirectoryEntrySize * w.numTables)
                    + SumSeq([k \in 1..(PosIn(order, t) - 1) |->
                        calc4BytePaddedLength(w.tables[order[k]].entry.origLength)]),
         length |-> w.tables[t].entry.origLength,
         checkSum |-> w.tables[t].entry.origChecksum]]

\* WOFFWriter._handleHeadChecksum; order: the order
\* sorted(self.tables.values()) yields
handleHeadChecksum(w, order) ==
    storeHead(w, w.tables[TagHead],
        prepTable(TagHead,
            Slice(w.tables[TagHead].data, 0, 8)
                \o WCells(calcHeadCheckSumAdjustment(w.flavor, sfntTables(w, order)))
                \o SliceFrom(w.tables[TagHead].data, 12),
            <<>>, FALSE))

\* sstruct.pack(woffHeaderFormat, self)
packHeader(w) ==
    Cells(<<119, 79, 70, 70>>) \o TagCells(w.flavor) \o U32Cells(w.length)
    \o U16Cells(w.numTables) \o U16Cells(w.reserved) \o U32Cells(w.totalSFNTSize)
    \o U16Cells(w.majorVersion) \o U16Cells(w.minorVersion)
    \o U32Cells(w.metaOffset) \o U32Cells(w.metaLength) \o U32Cells(w.metaOrigLength)
    \o U32Cells(w.privOffset) \o U32Cells(w.privLength)

\* sstruct.pack(woffDirectoryEntryFormat, entry)
packEntry(e) ==
    TagCells(e.tag) \o U32Cells(e.offset) \o U32Cells(e.compLength)
    \o U32Cells(e.origLength) \o WCells(e.origChecksum)

\* file.seek(pos); file.write(cells): a gap left by the seek reads as zeros
FileWrite(f, pos, cells) ==
    IF cells = <<>> THEN f
    ELSE LET padded == IF pos > Len(f) THEN f \o Zeros(pos - Len(f)) ELSE f
         IN [i \in 1..Max(Len(padded), pos + Len(cells)) |->
                IF i > pos /\ i <= pos + Len(cells) THEN cells[i - pos] ELSE padded[i]]

\* a directory written in the order of the table bodies
writeTableDirectoryInWriteOrder(w, f) ==
    LET tags == CHOOSE o \in tableOrder(w) : TRUE
    IN FileWrite(f, woffHeaderSize,
            ConcatAll([i \in 1..Len(tags) |-> packEntry(w.tables[tags[i]].entry)]))

writeTableDirectory(w, f) ==
    LET tags == SortTags(DOMAIN w.tables)
    IN FileWrite(f, woffHeaderSize,
            ConcatAll([i \in 1..Len(tags) |-> packEntry(w.tables[tags[i]].entry)]))

writeTableData(w, f, order) ==
    LET offset == woffHeaderSize + (woffDirectoryEntrySize * w.numTables)
        padded(t) == w.tables[t].data
            \o Zeros(calc4BytePaddedLength(w.tables[t].entry.compLength)
                        - w.tables[t].entry.compLength)
        length == w.length + SumSeq([i \in 1..Len(order) |->
                    calc4BytePaddedLength(w.tables[order[i]].entry.compLength)])
    IN [w |-> [w EXCEPT !.length = length,
                        !.totalSFNTSize = w.totalSFNTSize + SumSeq([i \in 1..Len(order) |->
                            calc4BytePaddedLength(w.tables[order[i]].entry.origLength)]),
                        !.tableDataEnd = length],
        f |-> FileWrite(f, offset, ConcatAll([i \in 1..Len(order) |-> padded(order[i])]))]

\* a metadata block that is padded whether or not private data follows
writeMetadataAlwaysPadded(w, f) ==
    IF w.metadata = <<>> THEN [w |-> w, f |-> f]
    ELSE [w |-> [w EXCEPT !.length = w.length + calc4BytePaddedLength(w.metaLength),
                          !.metaOffset = w.tableDataEnd,
                          !.metadataEnd = w.tableDataEnd + calc4BytePaddedLength(w.metaLength)],
          f |-> FileWrite(f, w.tableDataEnd, w.metadata[1]
                    \o Zeros(calc4BytePaddedLength(w.metaLength) - w.metaLength))]

\* a metadata block whose padding is written but not counted
writeMetadataPaddingNotCounted(w, f) ==
    IF w.metadata = <<>> THEN [w |-> w, f |-> f]
    ELSE LET metaOffset == w.tableDataEnd
             padding == IF w.privateData # <<>>
                        THEN calc4BytePaddedLength(w.metaLength) - w.metaLength ELSE 0
         IN [w |-> [w EXCEPT !.length = w.length + w.metaLength,
                             !.metaOffset = metaOffset,
                             !.metadataEnd = metaOffset + w.metaLength + padding],
             f |-> FileWrite(f, metaOffset, w.metadata[1] \o Zeros(padding))]

writeMetadata(w, f) ==
    IF w.metadata = <<>> THEN [w |-> w, f |-> f]
    ELSE LET metaOffset == w.tableDataEnd
             padding == IF w.privateData # <<>>
                        THEN calc4BytePaddedLength(w.metaLength) - w.metaLength ELSE 0
         IN [w |-> [w EXCEPT !.length = w.length + w.metaLength + padding,
                             !.metaOffset = metaOffset,
                             !.metadataEnd = metaOffset + w.metaLength + padding],
             f |-> FileWrite(f, metaOffset, w.metadata[1] \o Zeros(padding))]

writePrivateData(w, f) ==
    IF w.privateData = <<>> THEN [w |-> w, f |-> f]
    ELSE LET privOffset == IF w.metadata # <<>> THEN w.metadataEnd ELSE w.tableDataEnd
         IN [w |-> [w EXCEPT !.privOffset = privOffset,
                             !.length = w.length + w.privLength],
             f |-> FileWrite(f, privOffset, w.privateData[1])]

writeHeader(w, f) == FileWrite(f, 0, packHeader(w))

\* the first exception of the conformance loop, "" when there is none
RECURSIVE conformanceLoop(_, _)
conformanceLoop(w, tags) ==
    IF tags = <<>> THEN ""
    ELSE LET e == checkTableConformance(w.tables[Head(tags)].entry, w.tables[Head(tags)].data)
         IN IF e # "" THEN e ELSE conformanceLoop(w, Tail(tags))

\* the offsets close assigns along the write order
updateOffsets(w, order) ==
    [w EXCEPT !.tables = [t \in DOMAIN w.tables |->
        [w.tables[t] EXCEPT !.entry.offset =
            woffHeaderSize + (woffDirectoryEntrySize * w.numTables)
            + SumSeq([k \in 1..(PosIn(order, t) - 1) |->
                calc4BytePaddedLength(w.tables[order[k]].entry.compLength)])]]]

writeMetadataOn(t) == writeMetadata(t.w, t.f)
writePrivateDataOn(m) == writePrivateData(m.w, m.f)
closeFinish(p) == [w |-> p.w, f |-> writeHeader(p.w, p.f), err |-> ""]
\* the writes of close: header, directory, bodies, metadata, private data, header
closeWrite(w, f, order) ==
    closeFinish(writePrivateDataOn(writeMetadataOn(
        writeTableData(w, writeTableDirectory(w, writeHeader(w, f)), order))))
closeConformant(w, c, f, order) ==
    IF c # "" THEN [w |-> w, f |-> f, err |-> c]
    ELSE closeWrite(updateOffsets(w, order), f, order)
closeChecked(h, f, order) ==
    IF h.err # "" THEN [w |-> h.w, f |-> f, err |-> h.err]
    ELSE closeConformant(h.w, conformanceLoop(h.w, SortTags(DOMAIN h.w.tables)), f, order)

\* WOFFWriter.close; order: the order sorted(self.tables.values()) yields
close(w, f, order) ==
    IF w.numTables # Cardinality(DOMAIN w.tables)
    THEN [w |-> w, f |-> f, err |-> "WOFFLibError: wrong number of tables"]
    ELSE IF w.recalculateHeadChecksum /\ TagHead \in DOMAIN w.tables
    THEN closeChecked(handleHeadChecksum(w, order), f, order)
    ELSE closeChecked(Ok(w), f, order)

(* ---------------- XML (xml.etree.ElementTree) ---------------- *)

\* An element: its tag, its attributes (a function from names to values),
\* its text ("" when it has none) and its children.
Element(tag, attrib, text, children) ==
    [tag |-> tag, attrib |-> attrib, text |-> text, children |-> children]
NoAttrib == [n \in {} |-> ""]
TextEl(attrib, text) == Element("text", attrib, text, <<>>)

\* The documents the model knows.  The serialised form of document k is the
\* three bytes "<", k, ">"; every other byte string is not well-formed XML.
MetaDocs == <<
    \* 1: what a new WOFFFont holds
    Element("metadata", [version |-> "1.0"], "", <<>>),
    \* 2: one uniqueid
    Element("metadata", [version |-> "1.0"], "",
        <<Element("uniqueid", [id |-> "com.ex.f.1"], "", <<>>)>>),
    \* 3: a description with the language en twice
    Element("metadata", [version |-> "1.0"], "",
        <<Element("uniqueid", [id |-> "com.ex.f.1"], "", <<>>),
          Element("description", NoAttrib, "",
            <<TextEl([lang |-> "en"], "a"), TextEl([lang |-> "en"], "b")>>)>>),
    \* 4: credits, vendor, licensee, license
    Element("metadata", [version |-> "1.0"], "",
        <<Element("uniqueid", [id |-> "com.ex.f.1"], "", <<>>),
          Element("vendor", [name |-> "v", url |-> "u"], "", <<>>),
          Element("credits", NoAttrib, "",
            <<Element("credit", [name |-> "n", url |-> "u", role |-> "r"], "", <<>>)>>),
          Element("licensee", [name |-> "n"], "", <<>>),
          Element("license", [url |-> "u", id |-> "i"], "",
            <<TextEl(NoAttrib, "a"), TextEl([lang |-> "fr"], "b")>>)>>),
    \* 5: a wrong top element, an unknown child, an empty credits
    Element("bogus", [version |-> "2.0", bogus |-> "x"], "t",
        <<Element("bogus", NoAttrib, "", <<>>),
          Element("credits", NoAttrib, "", <<>>),
          Element("copyright", NoAttrib, "", <<TextEl(NoAttrib, ""), TextEl(NoAttrib, "c")>>),
          Element("trademark", [bogus |-> "x"], "t", <<TextEl([lang |-> " "], "a")>>),
          Element("uniqueid", NoAttrib, "", <<>>),
          Element("uniqueid", [id |-> " "], "", <<TextEl(NoAttrib, "a")>>)>>),
    \* 6: a description with a text of no language and a text of the language
    \* "undefined"
    Element("metadata", [version |-> "1.0"], "",
        <<Element("uniqueid", [id |-> "com.ex.f.1"], "", <<>>),
          Element("description", NoAttrib, "",
            <<TextEl(NoAttrib, "a"), TextEl([lang |-> "undefined"], "b")>>)>>),
    \* 7: a description with two texts of no language, a copyright with two
    \* languages
    Element("metadata", [version |-> "1.0"], "",
        <<Element("uniqueid", [id |-> "com.ex.f.1"], "", <<>>),
          Element("description", NoAttrib, "",
            <<TextEl(NoAttrib, "a"), TextEl(NoAttrib, "b")>>),
          Element("copyright", NoAttrib, "",
            <<TextEl([lang |-> "en"], "a"), TextEl([lang |-> "fr"], "b")>>)>>),
    \* 8: a trademark with two languages twice each, a license with one text,
    \* credits with an attribute
    Element("metadata", [version |-> "1.0"], "",
        <<Element("uniqueid", [id |-> "com.ex.f.1"], "", <<>>),
          Element("trademark", NoAttrib, "",
            <<TextEl([lang |-> "fr"], "a"), TextEl([lang |-> "en"], "b"),
              TextEl([lang |-> "en"], "c"), TextEl([lang |-> "fr"], "d"),
              TextEl(NoAttrib, "e")>>),
          Element("license", NoAttrib, "", <<TextEl([lang |-> "en"], "a")>>),
          Element("credits", [bogus |-> "x"], "",
            <<Element("credit", [name |-> "n"], "", <<>>)>>),
          Element("vendor", NoAttrib, "", <<>>),
          Element("licensee", [name |-> "n"], "t", <<>>)>>)
  >>
xmlBytes(k) == Cells(<<60, k, 62>>)
\* ElementTree.fromstring raises on anything that is not a document
xmlParses(data) == \E k \in 1..Len(MetaDocs) : data = xmlBytes(k)
fromstring(data) == MetaDocs[CHOOSE k \in 1..Len(MetaDocs) : data = xmlBytes(k)]

\* sorted(...) of names: all the names of the model, in string order
NameOrder == <<"bogus", "copyright", "credit", "credits", "description", "en", "fr",
               "id", "lang", "license", "licensee", "name", "role", "text",
               "trademark", "undefined", "uniqueid", "url", "vendor", "version">>
SortNames(S) == SelectSeq(NameOrder, LAMBDA n : n \in S)
\* value.strip() is empty
Blank(text) == text \in {"", " "}
ChildTags(e) == {e.children[i].tag : i \in 1..Len(e.children)}
CountTag(e, tag) == Cardinality({i \in 1..Len(e.children) : e.children[i].tag = tag})

(* ---------------- fontTools: sortedTagList ---------------- *)

\* head hhea maxp OS/2 hmtx LTSH VDMX hdmx cmap fpgm prep cvt loca glyf kern
\* name post gasp PCLT
TTFTableOrder ==
    <<<<104, 101, 97, 100>>, <<104, 104, 101, 97>>, <<109, 97, 120, 112>>,
      <<79, 83, 47, 50>>, <<104, 109, 116, 120>>, <<76, 84, 83, 72>>, <<86, 68, 77, 88>>,
      <<104, 100, 109, 120>>, <<99, 109, 97, 112>>, <<102, 112, 103, 109>>,
      <<112, 114, 101, 112>>, <<99, 118, 116, 32>>, <<108, 111, 99, 97>>,
      <<103, 108, 121, 102>>, <<107, 101, 114, 110>>, <<110, 97, 109, 101>>,
      <<112, 111, 115, 116>>, <<103, 97, 115, 112>>, <<80, 67, 76, 84>>>>
\* head hhea maxp OS/2 name cmap post CFF
OTFTableOrder ==
    <<<<104, 101, 97, 100>>, <<104, 104, 101, 97>>, <<109, 97, 120, 112>>,
      <<79, 83, 47, 50>>, <<110, 97, 109, 101>>, <<99, 109, 97, 112>>,
      <<112, 111, 115, 116>>, <<67, 70, 70, 32>>>>

\* the tags of tableOrder that are in the list, in that order and once each,
\* then the rest of the list in its own order
RECURSIVE orderedTables(_, _)
orderedTables(tagList, order) ==
    IF order = <<>> THEN tagList
    ELSE IF Head(order) \in Range(tagList)
    THEN <<Head(order)>>
            \o orderedTables(SelectSeq(tagList, LAMBDA t : t # Head(order)),
                             Tail(order))
    ELSE orderedTables(tagList, Tail(order))

\* sortedTagList(tagList, tableOrder); given: <<>> for None, <<tableOrder>>
sortedTagList(tags, given) ==
    LET sorted == SortTags(tags)
    IN IF given = <<>>
       THEN LET tagList == IF TagDSIG \in tags
                           THEN SelectSeq(sorted, LAMBDA t : t # TagDSIG) \o <<TagDSIG>>
                           ELSE sorted
            IN orderedTables(tagList, IF TagCFF \in tags THEN OTFTableOrder ELSE TTFTableOrder)
       ELSE orderedTables(sorted, given[1])

(* ---------------- WOFFReader ---------------- *)

\* entry.fromFile: the i-th entry of the directory
readerEntry(file, i) ==
    [tag |-> TagAt(file, woffHeaderSize + (woffDirectoryEntrySize * (i - 1))),
     offset |-> U32At(file, woffHeaderSize + (woffDirectoryEntrySize * (i - 1)) + 4),
     compLength |-> U32At(file, woffHeaderSize + (woffDirectoryEntrySize * (i - 1)) + 8),
     origLength |-> U32At(file, woffHeaderSize + (woffDirectoryEntrySize * (i - 1)) + 12),
     origChecksum |-> WAt(file, woffHeaderSize + (woffDirectoryEntrySize * (i - 1)) + 16)]
\* self.tables[entry.tag] = entry: the entry read last for a tag stays
readerTables(file, numTables) ==
    [tag \in {readerEntry(file, i).tag : i \in 1..numTables} |->
        readerEntry(file, CHOOSE i \in 1..numTables :
            /\ readerEntry(file, i).tag = tag
            /\ \A j \in (i + 1)..numTables : readerEntry(file, j).tag # tag)]

\* a constructor that does not look at the signature
WOFFReaderAnySignature(file, checkChecksums) ==
    IF Len(Slice(file, 0, woffHeaderSize)) # woffHeaderSize
    THEN [r |-> <<>>, err |-> "WOFFLibError: Not a properly formatted WOFF file."]
    ELSE IF Len(file) < woffHeaderSize + (woffDirectoryEntrySize * U16At(file, 12))
    THEN [r |-> <<>>, err |-> "struct.error"]
    ELSE [r |-> <<[file |-> file, checkChecksums |-> checkChecksums,
                   signature |-> TagAt(file, 0), flavor |-> TagAt(file, 4),
                   length |-> U32At(file, 8), numTables |-> U16At(file, 12),
                   reserved |-> U16At(file, 14), totalSFNTSize |-> U32At(file, 16),
                   majorVersion |-> U16At(file, 20), minorVersion |-> U16At(file, 22),
                   metaOffset |-> U32At(file, 24), metaLength |-> U32At(file, 28),
                   metaOrigLength |-> U32At(file, 32), privOffset |-> U32At(file, 36),
                   privLength |-> U32At(file, 40),
                   tables |-> readerTables(file, U16At(file, 12))]>>,
          err |-> ""]

\* WOFFReader(file, checkChecksums): the reader, or the exception that ends
\* __init__ (sstruct.unpack raises struct.error on a directory that is cut)
WOFFReader(file, checkChecksums) ==
    IF Len(Slice(file, 0, woffHeaderSize)) # woffHeaderSize
    THEN [r |-> <<>>, err |-> "WOFFLibError: Not a properly formatted WOFF file."]
    ELSE IF TagAt(file, 0) # <<119, 79, 70, 70>>
    THEN [r |-> <<>>, err |-> "WOFFLibError: Not a properly formatted WOFF file."]
    ELSE IF Len(file) < woffHeaderSize + (woffDirectoryEntrySize * U16At(file, 12))
    THEN [r |-> <<>>, err |-> "struct.error"]
    ELSE [r |-> <<[file |-> file, checkChecksums |-> checkChecksums,
                   signature |-> TagAt(file, 0), flavor |-> TagAt(file, 4),
                   length |-> U32At(file, 8), numTables |-> U16At(file, 12),
                   reserved |-> U16At(file, 14), totalSFNTSize |-> U32At(file, 16),
                   majorVersion |-> U16At(file, 20), minorVersion |-> U16At(file, 22),
                   metaOffset |-> U32At(file, 24), metaLength |-> U32At(file, 28),
                   metaOrigLength |-> U32At(file, 32), privOffset |-> U32At(file, 36),
                   privLength |-> U32At(file, 40),
                   tables |-> readerTables(file, U16At(file, 12))]>>,
          err |-> ""]

\* WOFFReader.keys: sorted((entry.offset, tag)) orders by offset, then by tag
readerKeys(r) ==
    CHOOSE o \in Perms(DOMAIN r.tables) :
        \A i, j \in 1..Len(o) : i < j =>
            \/ r.tables[o[i]].offset < r.tables[o[j]].offset
            \/ /\ r.tables[o[i]].offset = r.tables[o[j]].offset
               /\ LexLess(o[i], o[j])

\* self.file.seek(entry.offset); self.file.read(entry.compLength)
readCompressed(r, entry) == Slice(r.file, entry.offset, entry.offset + entry.compLength)

\* a comparison that raises on every mismatch it looks for
compareChecksumsAlwaysStrict(checkChecksums, tag, entry, data) ==
    IF checkChecksums = 0
    THEN [data |-> <<data>>, err |-> "", printed |-> <<>>]
    ELSE IF calcTableChecksum(tag, data) # entry.origChecksum
    THEN [data |-> <<>>, err |-> "AssertionError: bad checksum", printed |-> <<>>]
    ELSE [data |-> <<data>>, err |-> "", printed |-> <<"">>]

\* the end of __getitem__: the comparison of the checksums.  printed: the
\* lines the call prints.
compareChecksums(checkChecksums, tag, entry, data) ==
    IF checkChecksums = 0
    THEN [data |-> <<data>>, err |-> "", printed |-> <<>>]
    ELSE IF checkChecksums > 1
    THEN IF calcTableChecksum(tag, data) # entry.origChecksum
         THEN [data |-> <<>>, err |-> "AssertionError: bad checksum", printed |-> <<>>]
         ELSE [data |-> <<data>>, err |-> "", printed |-> <<"">>]
    ELSE IF calcTableChecksum(tag, data) # entry.origChecksum
    THEN [data |-> <<data>>, err |-> "", printed |-> <<"bad checksum", "">>]
    ELSE [data |-> <<data>>, err |-> "", printed |-> <<"">>]
getitemOf(checkChecksums, tag, entry, data) ==
    IF entry.compLength < entry.origLength
    THEN IF ~zlibOk(data)
         THEN [data |-> <<>>, err |-> "zlib.error", printed |-> <<>>]
         ELSE compareChecksums(checkChecksums, tag, entry, zlibDecompress(data))
    ELSE compareChecksums(checkChecksums, tag, entry, Slice(data, 0, entry.origLength))
\* WOFFReader.__getitem__
getitem(r, tag) ==
    IF tag \notin DOMAIN r.tables
    THEN [data |-> <<>>, err |-> "KeyError", printed |-> <<>>]
    ELSE getitemOf(r.checkChecksums, tag, r.tables[tag], readCompressed(r, r.tables[tag]))

\* WOFFReader.getCompressedTableData: the bytes as stored and the entry's fields
getCompressedTableData(r, tag) ==
    [data |-> readCompressed(r, r.tables[tag]),
     given |-> <<[origLength |-> r.tables[tag].origLength,
                  origChecksum |-> r.tables[tag].origChecksum,
                  compLength |-> r.tables[tag].compLength]>>]

\* WOFFReader.getCompressedMetadata
getCompressedMetadata(r) ==
    [data |-> Slice(r.file, r.metaOffset, r.metaOffset + r.metaLength),
     given |-> <<[metaOrigLength |-> r.metaOrigLength, metaLength |-> r.metaLength]>>]

\* WOFFReader.privateData
readerPrivateData(r) == Slice(r.file, r.privOffset, r.privOffset + r.privLength)

\* WOFFReader.metadata: the bytes, inflated when metaLength is not 0
readerMetadataOf(metaLength, metaOrigLength, data) ==
    IF metaLength = 0 THEN [data |-> data, err |-> ""]
    ELSE IF ~zlibOk(data) THEN [data |-> <<>>, err |-> "zlib.error"]
    ELSE IF Len(zlibDecompress(data)) # metaOrigLength
    THEN [data |-> <<>>, err |-> "AssertionError"]
    ELSE [data |-> zlibDecompress(data), err |-> ""]
readerMetadata(r) ==
    readerMetadataOf(r.metaLength, r.metaOrigLength,
                     Slice(r.file, r.metaOffset, r.metaOffset + r.metaLength))

(* ---------------- WOFFFont ---------------- *)

\* WOFFFont(flavor=flavor), no file: the metadata is document 1 of MetaDocs.
\* metadata: _metadata as the number of its document, 0 for None;
\* privateData: <<>> while the attribute is None or not yet read from the
\* reader; reader: <<>> for None.
WOFFFont(flavor) ==
    [flavor |-> flavor, majorVersion |-> 0, minorVersion |-> 0,
     tables |-> <<>>, tableOrder |-> <<>>, metadata |-> 1, privateData |-> <<>>,
     reader |-> <<>>]

\* WOFFFont(file, checkChecksums=...) once the reader r is made
WOFFFontFrom(r) ==
    [flavor |-> r.flavor, majorVersion |-> r.majorVersion, minorVersion |-> r.minorVersion,
     tables |-> <<>>, tableOrder |-> <<readerKeys(r)>>, metadata |-> 0,
     privateData |-> <<>>, reader |-> <<r>>]

\* the pseudo tag "GlyphOrder"
GlyphOrder == <<71, 108, 121, 112, 104, 79, 114, 100, 101, 114>>

\* set(self.tables.keys()) | set(self.reader.keys())
fontTags(f) ==
    IF f.reader = <<>> THEN DOMAIN f.tables
    ELSE DOMAIN f.tables \cup Range(readerKeys(f.reader[1]))

\* keys that leave a loaded "GlyphOrder" table among the tags
keysWithLoadedGlyphOrder(f) == <<GlyphOrder>> \o sortedTagList(fontTags(f), f.tableOrder)

\* WOFFFont.keys
keys(f) == <<GlyphOrder>> \o sortedTagList(fontTags(f) \ {GlyphOrder}, f.tableOrder)

\* tags.remove(tag) when the tag is in the list: the first occurrence goes
firstIndex(tags, tag) ==
    CHOOSE i \in 1..Len(tags) : tags[i] = tag /\ \A j \in 1..(i - 1) : tags[j] # tag
removeAt(tags, i) == SubSeq(tags, 1, i - 1) \o SubSeq(tags, i + 1, Len(tags))
removeTag(tags, tag) ==
    IF tag \notin Range(tags) THEN tags ELSE removeAt(tags, firstIndex(tags, tag))

\* font.metadata: the document, or the exception reading it from the reader raises
metadataFromText(t) ==
    IF t.err # "" THEN [doc |-> 0, err |-> t.err]
    ELSE IF t.data = <<>> THEN [doc |-> 1, err |-> ""]
    ELSE IF ~xmlParses(t.data) THEN [doc |-> 0, err |-> "ExpatError"]
    ELSE [doc |-> CHOOSE k \in 1..Len(MetaDocs) : t.data = xmlBytes(k), err |-> ""]
fontMetadata(f) ==
    IF f.metadata # 0 THEN [doc |-> f.metadata, err |-> ""]
    ELSE metadataFromText(readerMetadata(f.reader[1]))

\* font.privateData
fontPrivateData(f) ==
    IF f.privateData # <<>> THEN f.privateData[1]
    ELSE IF f.reader # <<>> THEN readerPrivateData(f.reader[1])
    ELSE <<>>

setTableOrder(f, order) == [f EXCEPT !.tableOrder = <<order>>]

\* the DSIG rule without its reorderTables branch
saveRefusalAllowsReorder(f, reorderTables, recalculateHeadChecksum) ==
    LET tags == removeTag(keys(f), GlyphOrder)
    IN IF TagDSIG \notin Range(tags) THEN ""
       ELSE IF f.tableOrder = <<>> \/ Range(f.tableOrder[1]) # Range(tags)
       THEN "WOFFLibError: a complete table order must be supplied"
       ELSE IF recalculateHeadChecksum
       THEN "WOFFLibError: checkSumAdjustment can not be recalculated"
       ELSE ""

\* the exception the DSIG rule of save raises, "" when none
saveRefusal(f, reorderTables, recalculateHeadChecksum) ==
    LET tags == removeTag(keys(f), GlyphOrder)
    IN IF TagDSIG \notin Range(tags) THEN ""
       ELSE IF f.tableOrder = <<>> \/ Range(f.tableOrder[1]) # Range(tags)
       THEN "WOFFLibError: a complete table order must be supplied"
       ELSE IF reorderTables
       THEN "WOFFLibError: tables can not be reordered"
       ELSE IF recalculateHeadChecksum
       THEN "WOFFLibError: checkSumAdjustment can not be recalculated"
       ELSE ""

\* the setTable calls of save, one per tag
RECURSIVE saveTables(_, _, _)
RECURSIVE saveTablesNext(_, _, _)
saveTables(f, w, tags) ==
    IF tags = <<>> THEN Ok(w)
    ELSE IF Head(tags) \in DOMAIN f.tables
    THEN saveTablesNext(f, setTable(w, Head(tags), f.tables[Head(tags)], <<>>), Tail(tags))
    ELSE saveTablesNext(f, setTable(w, Head(tags),
                                    getCompressedTableData(f.reader[1], Head(tags)).data,
                                    getCompressedTableData(f.reader[1], Head(tags)).given),
                        Tail(tags))
saveTablesNext(f, r, tags) == IF r.err # "" THEN r ELSE saveTables(f, r.w, tags)

\* the steps of save after the tables, last first: close, private data,
\* metadata.  The tags of a font are distinct, so the writer's indices are,
\* and its write order is the one order tableOrder allows.  font: the font
\* after the call, which keeps what it read from its reader.
saveClosed(f, c) ==
    IF c.err # "" THEN [file |-> [exists |-> TRUE, data |-> <<>>, origin |-> "none"],
                        writer |-> <<c.w>>, err |-> c.err, font |-> f]
    ELSE [file |-> [exists |-> TRUE, data |-> c.f, origin |-> "writer"],
          writer |-> <<c.w>>, err |-> "", font |-> f]
saveClose(f, w) == saveClosed(f, close(w, <<>>, CHOOSE o \in tableOrder(w) : TRUE))
savePrivateDataOf(f, w, privData) ==
    saveClose(IF f.privateData = <<>> /\ f.reader # <<>>
              THEN [f EXCEPT !.privateData = <<privData>>] ELSE f,
              IF privData # <<>> THEN setPrivateData(w, privData) ELSE w)
savePrivateData(f, w) == savePrivateDataOf(f, w, fontPrivateData(f))
\* hasattr(self, "metadata") is False when reading the metadata raises; the
\* bytes of the reader are then passed as they are stored
saveCompressedMetadata(f, w, c) ==
    savePrivateData(f, IF c.data # <<>> THEN setMetadata(w, c.data, c.given) ELSE w)
saveMetadataOf(f, w, m) ==
    IF m.err = ""
    THEN savePrivateData([f EXCEPT !.metadata = m.doc], setMetadata(w, xmlBytes(m.doc), <<>>))
    ELSE saveCompressedMetadata(f, w, getCompressedMetadata(f.reader[1]))
saveMetadata(f, t) ==
    IF t.err # "" THEN [file |-> [exists |-> TRUE, data |-> <<>>, origin |-> "none"],
                        writer |-> <<t.w>>, err |-> t.err, font |-> f]
    ELSE saveMetadataOf(f, t.w, fontMetadata(f))
saveTagged(f, tags, recalculateHeadChecksum) ==
    saveMetadata(f, saveTables(f, WOFFWriter(Len(tags), f.flavor, f.majorVersion,
                                    f.minorVersion, recalculateHeadChecksum), tags))
\* WOFFFont.save(path, recompressTables=False, reorderTables=...,
\* recalculateHeadChecksum=...); file: the file at the path before the call.
\* Returns the file after the call, the writer it used (<<>> when it made
\* none), the exception raised and the font after the call.
save(f, file, reorderTables, recalculateHeadChecksum) ==
    IF saveRefusal(f, reorderTables, recalculateHeadChecksum) # ""
    THEN [file |-> file, writer |-> <<>>,
          err |-> saveRefusal(f, reorderTables, recalculateHeadChecksum), font |-> f]
    ELSE IF reorderTables
    THEN saveTagged(f, removeTag(sortedTagList(Range(removeTag(keys(f), GlyphOrder)), <<>>),
                                 GlyphOrder),
                    recalculateHeadChecksum)
    ELSE saveTagged(f, removeTag(removeTag(keys(f), GlyphOrder), GlyphOrder),
                    recalculateHeadChecksum)

(* ---------------- tools/validate.py: support ---------------- *)

headerSize == 44
directorySize == 20
sfntHeaderSize == 12

\* a finding of the reporter; about: the tag (or name) the message names
Finding(type, message, about) ==
    [type |-> type, message |-> message, about |-> about, names |-> <<>>]
\* a finding of the metadata tests; names: the element, attribute and
\* language names the message is formatted with
MFinding(type, message, names) ==
    [type |-> type, message |-> message, about |-> <<>>, names |-> names]
\* what a test function does: the findings it logs, its return value
\* (stop) and the exception that escapes it ("" when none)
Result(findings, stop) == [findings |-> findings, stop |-> stop, exc |-> ""]
Escapes(findings, exc) == [findings |-> findings, stop |-> FALSE, exc |-> exc]

unpackHeader(data) ==
    [signature |-> TagAt(data, 0), flavor |-> TagAt(data, 4),
     length |-> U32At(data, 8), numTables |-> U16At(data, 12),
     reserved |-> U16At(data, 14), totalSfntSize |-> U32At(data, 16),
     majorVersion |-> U16At(data, 20), minorVersion |-> U16At(data, 22),
     metaOffset |-> U32At(data, 24), metaLength |-> U32At(data, 28),
     metaOrigLength |-> U32At(data, 32), privOffset |-> U32At(data, 36),
     privLength |-> U32At(data, 40)]

\* structUnpack of the directory raises struct.error when bytes are missing
directoryUnpacks(data) ==
    Len(data) >= headerSize + (directorySize * unpackHeader(data).numTables)

unpackDirectory(data) ==
    [i \in 1..unpackHeader(data).numTables |->
        LET pos == headerSize + (directorySize * (i - 1))
        IN [tag |-> TagAt(data, pos), offset |-> U32At(data, pos + 4),
            compLength |-> U32At(data, pos + 8), origLength |-> U32At(data, pos + 12),
            origChecksum |-> WAt(data, pos + 16)]]

entryData(data, entry) == Slice(data, entry.offset, entry.offset + entry.compLength)

\* unpackTableData raises zlib.error when a table it inflates is no stream
tableDataUnpacksOf(data, directory) ==
    \A i \in 1..Len(directory) :
        directory[i].compLength < directory[i].origLength
            => zlibOk(entryData(data, directory[i]))
tableDataUnpacks(data) == tableDataUnpacksOf(data, unpackDirectory(data))

\* tables[tag]: the entry written last for the tag wins
unpackTableDataOf(data, directory) ==
    LET last(tag) == CHOOSE i \in 1..Len(directory) :
            /\ directory[i].tag = tag
            /\ \A j \in (i + 1)..Len(directory) : directory[j].tag # tag
    IN [tag \in {directory[i].tag : i \in 1..Len(directory)} |->
            IF directory[last(tag)].compLength < directory[last(tag)].origLength
            THEN zlibDecompress(entryData(data, directory[last(tag)]))
            ELSE entryData(data, directory[last(tag)])]
unpackTableData(data) == unpackTableDataOf(data, unpackDirectory(data))

calcPaddingLength(length) == 4 - (length % 4)
padData(data) == data \o Zeros(calcPaddingLength(Len(data)))
sumDataULongs(data) ==
    LET nw == Len(data) \div 4
    IN WMask32(WNorm(SumSeq([k \in 1..nw |-> U16At(data, 4 * k - 4)]),
                     SumSeq([k \in 1..nw |-> U16At(data, 4 * k - 2)])))
\* calcChecksum of validate.py
validateCalcChecksum(tag, data) ==
    sumDataULongs(padData(IF tag = TagHead
                          THEN Slice(data, 0, 8) \o Zeros(4) \o SliceFrom(data, 12)
                          ELSE data))

WLess(a, b) == a[1] < b[1] \/ (a[1] = b[1] /\ a[2] < b[2])
\* sorted(sorter) in calcHeadChecksum: by offset, then by the entry dicts,
\* which compare at their first differing key in key order; the sort is stable
sorterLess(a, b) ==
    IF a.offset # b.offset THEN a.offset < b.offset
    ELSE IF a.compLength # b.compLength THEN a.compLength < b.compLength
    ELSE IF a.origChecksum # b.origChecksum THEN WLess(a.origChecksum, b.origChecksum)
    ELSE IF a.origLength # b.origLength THEN a.origLength < b.origLength
    ELSE LexLess(a.tag, b.tag)
RECURSIVE sortSorter(_, _)
sortSorter(directory, I) ==
    IF I = {} THEN <<>>
    ELSE LET m == CHOOSE i \in I : \A j \in I :
                    \/ j = i
                    \/ sorterLess(directory[i], directory[j])
                    \/ (directory[i] = directory[j] /\ i < j)
         IN <<directory[m]>> \o sortSorter(directory, I \ {m})

\* the part of calcHeadChecksum after the sort; sorted: the entries by offset
calcHeadChecksumOf(flavor, numTables, sorted) ==
    LET offs == [i \in 1..Len(sorted) |->
                    sfntHeaderSize + (sfntDirectoryEntrySize * numTables)
                    + SumSeq([k \in 1..(i - 1) |->
                        sorted[k].origLength + calcPaddingLength(sorted[k].origLength)])]
        \* sfntEntries[tag] = ...: a later entry of the same tag replaces an earlier one
        lastOf(tag) == CHOOSE i \in 1..Len(sorted) :
            /\ sorted[i].tag = tag
            /\ \A j \in (i + 1)..Len(sorted) : sorted[j].tag # tag
        tags == SortTags({sorted[i].tag : i \in 1..Len(sorted)})
        sfntEntry(tag) == [checkSum |-> sorted[lastOf(tag)].origChecksum,
                           offset |-> offs[lastOf(tag)],
                           length |-> sorted[lastOf(tag)].origLength]
        sfntData == sfntHeaderCells(flavor, numTables)
            \o ConcatAll([i \in 1..Len(tags) |-> sfntEntryCells(tags[i], sfntEntry(tags[i]))])
        checkSums == [i \in 1..Len(tags) |-> sfntEntry(tags[i]).checkSum]
    IN WSub(<<45488, 44986>>,
            WAdd(WSum(checkSums), validateCalcChecksum(<<>>, sfntData)))
calcHeadChecksumSorted(header, directory) ==
    calcHeadChecksumOf(header.flavor, header.numTables,
                       sortSorter(directory, 1..Len(directory)))
calcHeadChecksum(data) == calcHeadChecksumSorted(unpackHeader(data), unpackDirectory(data))

(* ---------------- tools/validate.py: header tests ---------------- *)

Pass(about) == Finding("PASS", "", about)
Error(message, about) == Finding("ERROR", message, about)
Warning(message, about) == Finding("WARNING", message, about)
Note(message, about) == Finding("NOTE", message, about)

testHeaderSize(data) ==
    IF Len(data) < headerSize
    THEN Result(<<Error("The header is not the proper length.", <<>>)>>, TRUE)
    ELSE Result(<<Pass(<<>>)>>, FALSE)

testHeaderStructure(data) ==
    IF Len(data) < headerSize
    THEN Result(<<Error("The header is not properly structured.", <<>>)>>, TRUE)
    ELSE Result(<<Pass(<<>>)>>, FALSE)

testHeaderSignature(data) ==
    IF unpackHeader(data).signature # <<119, 79, 70, 70>>
    THEN Result(<<Error("Invalid signature", <<>>)>>, TRUE)
    ELSE Result(<<Pass(<<>>)>>, FALSE)

FlavorOTTO == <<79, 84, 84, 79>>
FlavorTrueType == <<0, 1, 0, 0>>
FlavorTrue == <<116, 114, 117, 101>>

directoryTags(directory) == {directory[i].tag : i \in 1..Len(directory)}
testHeaderFlavorTags(flavor, tags) ==
    IF TagCFF \in tags /\ flavor # FlavorOTTO
    THEN Result(<<Error("A CFF table is defined in the font and the flavor is not set to OTTO.", <<>>)>>, FALSE)
    ELSE IF TagCFF \notin tags /\ flavor = FlavorOTTO
    THEN Result(<<Error("The flavor is set to OTTO but no CFF table is defined.", <<>>)>>, FALSE)
    ELSE Result(<<Pass(<<>>)>>, FALSE)
testHeaderFlavorOf(data, flavor) ==
    IF flavor \notin {FlavorOTTO, FlavorTrueType, FlavorTrue}
    THEN Result(<<Error("Unknown flavor", <<>>)>>, FALSE)
    ELSE IF ~directoryUnpacks(data)
    THEN Result(<<Warning("Could not validate the flavor.", <<>>)>>, FALSE)
    ELSE testHeaderFlavorTags(flavor, directoryTags(unpackDirectory(data)))
testHeaderFlavor(data) == testHeaderFlavorOf(data, unpackHeader(data).flavor)

\* n rounded up to a multiple of 4, as the tests write it
roundUp4(n) == IF n % 4 # 0 THEN n + (4 - (n % 4)) ELSE n

\* a length test that does not add up the blocks behind the directory
testHeaderLengthDirectoryOnly(data, header) ==
    IF header.length # Len(data)
    THEN Result(<<Error("Defined length does not match actual length of the data.", <<>>)>>, TRUE)
    ELSE IF header.length < headerSize + (directorySize * header.numTables)
    THEN Result(<<Error("Invalid length defined for number of tables defined.", <<>>)>>, TRUE)
    ELSE Result(<<Pass(<<>>)>>, FALSE)

tablesLength(directory) ==
    SumSeq([i \in 1..Len(directory) |-> roundUp4(directory[i].compLength)])
testHeaderLengthOf(data, header) ==
    LET length == header.length
        minLength == headerSize + (directorySize * header.numTables)
        metaLength == IF header.privLength # 0
                      THEN roundUp4(header.metaLength) ELSE header.metaLength
    IN IF length # Len(data)
       THEN Result(<<Error("Defined length does not match actual length of the data.", <<>>)>>, TRUE)
       ELSE IF length < minLength
       THEN Result(<<Error("Invalid length defined for number of tables defined.", <<>>)>>, TRUE)
       ELSE IF length < minLength + tablesLength(unpackDirectory(data))
                            + metaLength + header.privLength
       THEN Result(<<Error("Defined length does not match the required length of the data.", <<>>)>>, TRUE)
       ELSE Result(<<Pass(<<>>)>>, FALSE)
testHeaderLength(data) == testHeaderLengthOf(data, unpackHeader(data))

testHeaderReserved(data) ==
    IF unpackHeader(data).reserved # 0
    THEN Result(<<Error("Invalid value in reserved field.", <<>>)>>, TRUE)
    ELSE Result(<<Pass(<<>>)>>, FALSE)

testHeaderTotalSFNTSizeOf(header, directory) ==
    IF header.totalSfntSize # sfntHeaderSize + (header.numTables * sfntDirectoryEntrySize)
            + SumSeq([i \in 1..Len(directory) |-> roundUp4(directory[i].origLength)])
    THEN Result(<<Error("The total sfnt size does not match the required sfnt size.", <<>>)>>, FALSE)
    ELSE Result(<<Pass(<<>>)>>, FALSE)
testHeaderTotalSFNTSize(data) ==
    testHeaderTotalSFNTSizeOf(unpackHeader(data), unpackDirectory(data))

\* float("%d.%d" % (majorVersion, minorVersion)) < 1.0 exactly when majorVersion = 0
testHeaderMajorVersionAndMinorVersion(data) ==
    IF unpackHeader(data).majorVersion < 1
    THEN Result(<<Warning("The major version and minor version create a version less than 1.0.", <<>>)>>, FALSE)
    ELSE Result(<<Pass(<<>>)>>, FALSE)

(* ---------------- tools/validate.py: directory tests ---------------- *)

testHeaderNumTables(data) ==
    IF unpackHeader(data).numTables < 1
    THEN Result(<<Error("Invalid number of tables defined in header structure.", <<>>)>>, TRUE)
    ELSE IF ~directoryUnpacks(data)
    THEN Result(<<Error("The defined number of tables in the header does not match the actual number of tables.", <<>>)>>, TRUE)
    ELSE Result(<<Pass(<<>>)>>, FALSE)

\* storedOrder != sorted(storedOrder)
isSorted(tags) == \A i \in 1..(Len(tags) - 1) : ~LexLess(tags[i + 1], tags[i])

storedOrder(directory) == [i \in 1..Len(directory) |-> directory[i].tag]
\* an order test that wants every tag above the one before it
testDirectoryTableOrderStrict(data) ==
    IF \E i \in 1..(Len(unpackDirectory(data)) - 1) :
            ~LexLess(unpackDirectory(data)[i].tag, unpackDirectory(data)[i + 1].tag)
    THEN Result(<<Error("The table directory entries are not stored in alphabetical order.", <<>>)>>, FALSE)
    ELSE Result(<<Pass(<<>>)>>, FALSE)
testDirectoryTableOrder(data) ==
    IF ~isSorted(storedOrder(unpackDirectory(data)))
    THEN Result(<<Error("The table directory entries are not stored in alphabetical order.", <<>>)>>, FALSE)
    ELSE Result(<<Pass(<<>>)>>, FALSE)

\* a borders test that looks at the offsets alone
testDirectoryBordersOffsetsOnly(header, directory) ==
    LET haveError(t) ==
            \/ t.offset < headerSize + (directorySize * header.numTables)
            \/ t.offset > header.length
    IN Result([i \in 1..Len(directory) |->
                    IF haveError(directory[i])
                    THEN Error("The table directory entry has an invalid offset.", directory[i].tag)
                    ELSE Pass(directory[i].tag)],
              \E i \in 1..Len(directory) : haveError(directory[i]))

testDirectoryBordersOf(header, directory) ==
    LET totalLength == header.length
        minOffset == headerSize + (directorySize * header.numTables)
        maxLength == totalLength - minOffset
        haveError(t) ==
            \/ t.offset < minOffset
            \/ t.offset > totalLength
            \/ (t.offset + t.compLength) > totalLength
            \/ t.compLength > maxLength
        one(t) == IF t.offset < minOffset \/ t.offset > totalLength
                  THEN Error("The table directory entry has an invalid offset.", t.tag)
                  ELSE IF haveError(t)
                  THEN Error("The table directory entry has an invalid length.", t.tag)
                  ELSE Pass(t.tag)
    IN Result([i \in 1..Len(directory) |-> one(directory[i])],
              \E i \in 1..Len(directory) : haveError(directory[i]))
testDirectoryBorders(data) ==
    testDirectoryBordersOf(unpackHeader(data), unpackDirectory(data))

testDirectoryCompressedLengthOf(directory) ==
    Result([i \in 1..Len(directory) |->
                IF directory[i].compLength > directory[i].origLength
                THEN Error("The table directory entry has a compressed length larger than the original length.", directory[i].tag)
                ELSE Pass(directory[i].tag)], FALSE)
testDirectoryCompressedLength(data) ==
    testDirectoryCompressedLengthOf(unpackDirectory(data))

\* the entries for which a test logs a finding, in directory order
SelectSeq2(s, keep(_)) ==
    LET idx == {i \in 1..Len(s) : keep(s[i])}
        kth(k) == CHOOSE i \in idx : Cardinality({j \in idx : j <= i}) = k
    IN [k \in 1..Cardinality(idx) |-> s[kth(k)]]

testDirectoryDecompressedLengthOf(compressed, tableData) ==
    Result([i \in 1..Len(compressed) |->
                IF compressed[i].origLength # Len(tableData[compressed[i].tag])
                THEN Error("The table directory entry has an original length that does not match the actual length of the decompressed data.", compressed[i].tag)
                ELSE Pass(compressed[i].tag)], FALSE)
testDirectoryDecompressedLength(data) ==
    IF ~tableDataUnpacks(data) THEN Escapes(<<>>, "zlib.error")
    ELSE testDirectoryDecompressedLengthOf(
            SelectSeq2(unpackDirectory(data), LAMBDA t : t.compLength < t.origLength),
            unpackTableData(data))

testDirectoryChecksumsOf(directory, tables) ==
    Result([i \in 1..Len(directory) |->
                IF validateCalcChecksum(directory[i].tag, tables[directory[i].tag])
                        # directory[i].origChecksum
                THEN Error("The table directory entry original checksum does not match the checksum calculated from the data.", directory[i].tag)
                ELSE Pass(directory[i].tag)], FALSE)
testDirectoryChecksums(data) ==
    IF ~tableDataUnpacks(data) THEN Escapes(<<>>, "zlib.error")
    ELSE testDirectoryChecksumsOf(unpackDirectory(data), unpackTableData(data))

(* ---------------- tools/validate.py: table tests ---------------- *)

SeqMin(s) == CHOOSE m \in Range(s) : \A v \in Range(s) : m <= v
SeqMax(s) == CHOOSE m \in Range(s) : \A v \in Range(s) : m >= v

testTableDataStartOf(requiredStart, offsets) ==
    IF offsets = <<>> THEN Escapes(<<>>, "ValueError")
    ELSE IF requiredStart # SeqMin(offsets)
    THEN Result(<<Error("The table data does not start in the required position.", <<>>)>>, FALSE)
    ELSE Result(<<Pass(<<>>)>>, FALSE)
directoryOffsets(directory) == [i \in 1..Len(directory) |-> directory[i].offset]
testTableDataStart(data) ==
    testTableDataStartOf(headerSize + (directorySize * unpackHeader(data).numTables),
                         directoryOffsets(unpackDirectory(data)))

testTablePaddingOf(header, directory) ==
    LET sfntEnd == IF header.metaOffset = 0 /\ header.privOffset = 0 THEN header.length
                   ELSE IF header.metaOffset # 0 THEN header.metaOffset
                   ELSE header.privOffset
    IN Result([i \in 1..Len(directory) |->
                IF directory[i].offset % 4 # 0
                THEN Error("The table does not begin on a 4-byte boundary.", directory[i].tag)
                ELSE Pass(directory[i].tag)]
              \o <<IF sfntEnd % 4 # 0
                   THEN Error("The sfnt data does not end with proper padding.", <<>>)
                   ELSE Pass(<<>>)>>, FALSE)
testTablePadding(data) == testTablePaddingOf(unpackHeader(data), unpackDirectory(data))

testTableDecompressionOf(data, compressed) ==
    Result([i \in 1..Len(compressed) |->
                IF zlibOk(entryData(data, compressed[i]))
                THEN Pass(compressed[i].tag)
                ELSE Error("The table data can not be decompressed with zlib.", compressed[i].tag)],
              \E i \in 1..Len(compressed) : ~zlibOk(entryData(data, compressed[i])))
testTableDecompression(data) ==
    testTableDecompressionOf(data,
        SelectSeq2(unpackDirectory(data), LAMBDA t : ~(t.origLength <= t.compLength)))

testHeadCheckSumAdjustmentOf(data, tables) ==
    IF TagHead \notin DOMAIN tables
    THEN Result(<<Warning("The font does not contain a head table.", <<>>)>>, FALSE)
    ELSE IF Len(Slice(tables[TagHead], 8, 12)) # 4
    THEN Result(<<Error("The head table is not properly structured.", <<>>)>>, FALSE)
    ELSE IF WSignedAt(tables[TagHead], 8) # calcHeadChecksum(data)
    THEN Result(<<Error("The head table checkSumAdjustment does not match the calculated checkSumAdjustment.", <<>>)>>, FALSE)
    ELSE Result(<<Pass(<<>>)>>, FALSE)
testHeadCheckSumAdjustment(data) ==
    IF ~tableDataUnpacks(data) THEN Escapes(<<>>, "zlib.error")
    ELSE testHeadCheckSumAdjustmentOf(data, unpackTableData(data))

testDSIG(data) ==
    IF \E i \in 1..Len(unpackDirectory(data)) : unpackDirectory(data)[i].tag = TagDSIG
    THEN Result(<<Warning("The font contains a DSIG table. This can not be validated by this tool.", <<>>)>>, FALSE)
    ELSE Result(<<Note("The font does not contain a DSIG table.", <<>>)>>, FALSE)

(* ---------------- tools/validate.py: metadata structure ---------------- *)

\* what a helper of the structure test does: its findings and its return
\* value haveError
MResult(findings, haveError) == [findings |-> findings, haveError |-> haveError]

testMetadataAbstractElementRequiredAttributes(element, tag, requiredAttributes) ==
    LET missing == SortNames({a \in requiredAttributes : a \notin DOMAIN element.attrib})
    IN MResult([i \in 1..Len(missing) |->
                    MFinding("ERROR", "Required attribute is not defined in the element.",
                             <<missing[i], tag>>)],
               missing # <<>>)

testMetadataAbstractElementOptionalAttributes(element, tag, optionalAttributes, noteMissingOptionalAttributes) ==
    LET missing == SortNames({a \in optionalAttributes :
                        a \notin DOMAIN element.attrib /\ noteMissingOptionalAttributes})
    IN MResult([i \in 1..Len(missing) |->
                    MFinding("NOTE", "Optional attribute is not defined in the element.",
                             <<missing[i], tag>>)],
               FALSE)

testMetadataAbstractElementUnknownAttributes(element, tag, requiredAttributes, optionalAttributes) ==
    LET unknown == SortNames({a \in DOMAIN element.attrib :
                        a \notin requiredAttributes /\ a \notin optionalAttributes})
    IN MResult([i \in 1..Len(unknown) |->
                    MFinding("WARNING", "Unknown attribute of element.", <<unknown[i], tag>>)],
               unknown # <<>>)

testMetadataAbstractElementEmptyValue(element, tag, requiredAttributes, optionalAttributes) ==
    LET empty == SortNames({a \in DOMAIN element.attrib :
                        /\ (a \in requiredAttributes \/ a \in optionalAttributes)
                        /\ Blank(element.attrib[a])})
    IN MResult([i \in 1..Len(empty) |->
                    MFinding("ERROR", "The value for the attribute in the element is an empty string.",
                             <<empty[i], tag>>)],
               empty # <<>>)

testMetadataAbstractElementRequiredText(element, tag) ==
    IF ~Blank(element.text) THEN MResult(<<>>, FALSE)
    ELSE MResult(<<MFinding("ERROR", "Text not defined in element.", <<tag>>)>>, TRUE)

testMetadataAbstractElementIllegalText(element, tag) ==
    IF ~Blank(element.text)
    THEN MResult(<<MFinding("ERROR", "Text defined in element.", <<tag>>)>>, TRUE)
    ELSE MResult(<<>>, FALSE)

AlertType(level) ==
    IF level = "error" THEN "ERROR" ELSE IF level = "warning" THEN "WARNING" ELSE "NOTE"

testMetadataAbstractElementKnownChildElements(element, tag, knownChildElements, missingChildElementsAlertLevel) ==
    LET unknown == SelectSeq(element.children, LAMBDA c : c.tag \notin knownChildElements)
        missing == SortNames({c \in knownChildElements : c \notin ChildTags(element)})
    IN MResult([i \in 1..Len(unknown) |->
                    MFinding("WARNING", "Unknown child element in element.",
                             <<unknown[i].tag, tag>>)]
               \o [i \in 1..Len(missing) |->
                    MFinding(AlertType(missingChildElementsAlertLevel),
                             "Child element is not defined in the element.",
                             <<missing[i], tag>>)],
               missing # <<>>)

testMetadataAbstractElementIllegalChildElements(element, tag) ==
    IF Len(element.children) # 0
    THEN MResult(<<MFinding("ERROR", "Child elements defined in element.", <<tag>>)>>, TRUE)
    ELSE MResult(<<>>, FALSE)

\* args: [requiredAttributes, optionalAttributes, noteMissingOptionalAttributes,
\*        knownChildElements, missingChildElementsAlertLevel, requireText]
AbstractArgs(required, optional, known, level) ==
    [requiredAttributes |-> required, optionalAttributes |-> optional,
     noteMissingOptionalAttributes |-> TRUE, knownChildElements |-> known,
     missingChildElementsAlertLevel |-> level, requireText |-> FALSE]

\* haveError of a helper that calls two helpers in turn
MJoin(a, b) == MResult(a.findings \o b.findings, a.haveError \/ b.haveError)

testMetadataAbstractElement(element, tag, args) ==
    MJoin(MJoin(MJoin(MJoin(MJoin(
        testMetadataAbstractElementRequiredAttributes(element, tag, args.requiredAttributes),
        testMetadataAbstractElementOptionalAttributes(element, tag,
            args.optionalAttributes, args.noteMissingOptionalAttributes)),
        testMetadataAbstractElementUnknownAttributes(element, tag,
            args.requiredAttributes, args.optionalAttributes)),
        testMetadataAbstractElementEmptyValue(element, tag,
            args.requiredAttributes, args.optionalAttributes)),
        IF args.requireText
        THEN testMetadataAbstractElementRequiredText(element, tag)
        ELSE testMetadataAbstractElementIllegalText(element, tag)),
        IF args.knownChildElements # {}
        THEN testMetadataAbstractElementKnownChildElements(element, tag,
                args.knownChildElements, args.missingChildElementsAlertLevel)
        ELSE testMetadataAbstractElementIllegalChildElements(element, tag))

\* the helpers that run once per child: findings in child order
RECURSIVE ForEach(_, _)
ForEach(results, i) ==
    IF i > Len(results) THEN MResult(<<>>, FALSE)
    ELSE MJoin(results[i], ForEach(results, i + 1))

testMetadataAbstractTextElementsOf(texts, tag) ==
    ForEach([i \in 1..Len(texts) |->
        testMetadataAbstractElement(texts[i], tag,
            [AbstractArgs({}, {"lang"}, {}, "error") EXCEPT
                !.requireText = TRUE, !.noteMissingOptionalAttributes = FALSE])], 1)
testMetadataAbstractTextElements(element, tag) ==
    testMetadataAbstractTextElementsOf(
        SelectSeq(element.children, LAMBDA c : c.tag = "text"), tag)

Lang(child) == IF "lang" \in DOMAIN child.attrib THEN child.attrib["lang"] ELSE "undefined"

testMetadataAbstractTextElementLanguages(element, tag) ==
    LET texts == SelectSeq(element.children, LAMBDA c : c.tag = "text")
        count(lang) == Cardinality({i \in 1..Len(texts) : Lang(texts[i]) = lang})
        dup == SortNames({Lang(texts[i]) : i \in {j \in 1..Len(texts) : count(Lang(texts[j])) > 1}})
    IN MResult([i \in 1..Len(dup) |->
                    MFinding("ERROR", "More than one instance of language in the element.",
                             <<dup[i], tag>>)],
               dup # <<>>)

PassIf(ok, name) ==
    IF ok THEN <<MFinding("PASS", "The element is properly formatted.", <<name>>)>> ELSE <<>>
\* if not haveError: reporter.logPass(...)
WithPass(r, name) == r.findings \o PassIf(~r.haveError, name)

testMetadataUniqueid(element) ==
    WithPass(testMetadataAbstractElement(element, "uniqueid",
                AbstractArgs({"id"}, {}, {}, "error")), "uniqueid")

testMetadataVendor(element) ==
    WithPass(testMetadataAbstractElement(element, "vendor",
                AbstractArgs({"name"}, {"url"}, {}, "error")), "vendor")

testMetadataCredit(element) ==
    WithPass(testMetadataAbstractElement(element, "credit",
                AbstractArgs({"name"}, {"url", "role"}, {}, "error")), "credit")

\* haveError starts True here, and the element is checked under the tag "vendor"
testMetadataCreditsOf(credit) ==
    ConcatAll([i \in 1..Len(credit) |-> testMetadataCredit(credit[i])])
testMetadataCredits(element) ==
    testMetadataAbstractElement(element, "vendor",
        AbstractArgs({}, {}, {"credit"}, "error")).findings
    \o PassIf(~TRUE, "credits")
    \o testMetadataCreditsOf(SelectSeq(element.children, LAMBDA c : c.tag = "credit"))

\* description, license, copyright and trademark share their shape
testMetadataTextParent(element, tag, optional) ==
    WithPass(MJoin(MJoin(
        testMetadataAbstractElement(element, tag,
            AbstractArgs({}, optional, {"text"}, "warning")),
        testMetadataAbstractTextElements(element, tag)),
        testMetadataAbstractTextElementLanguages(element, tag)), tag)

testMetadataDescription(element) == testMetadataTextParent(element, "description", {})
testMetadataLicense(element) == testMetadataTextParent(element, "license", {"url", "id"})
testMetadataCopyright(element) == testMetadataTextParent(element, "copyright", {})
testMetadataTrademark(element) == testMetadataTextParent(element, "trademark", {})

\* the element is checked under the tag "vendor"
testMetadataLicensee(element) ==
    WithPass(testMetadataAbstractElement(element, "vendor",
                AbstractArgs({"name"}, {}, {}, "error")), "licensee")

KnownElements == {"uniqueid", "vendor", "credits", "description", "license",
                  "copyright", "trademark", "licensee"}

testMetadataElementExistence(tree) ==
    LET missing == SortNames({t \in KnownElements \ {"uniqueid"} : CountTag(tree, t) = 0})
    IN (IF CountTag(tree, "uniqueid") = 0
        THEN <<MFinding("WARNING", "No uniqueid child is in the metadata element.", <<"uniqueid">>)>>
        ELSE <<>>)
       \o [i \in 1..Len(missing) |->
            MFinding("NOTE", "No child is in the metadata element.", <<missing[i]>>)]

testMetadataDuplicateElements(tree) ==
    LET dup == SortNames({t \in KnownElements : CountTag(tree, t) > 1})
    IN [i \in 1..Len(dup) |->
            MFinding("WARNING", "The tag is used more than once in the metadata element.", <<dup[i]>>)]

testMetadataChildElement(element) ==
    IF element.tag = "uniqueid" THEN testMetadataUniqueid(element)
    ELSE IF element.tag = "vendor" THEN testMetadataVendor(element)
    ELSE IF element.tag = "credits" THEN testMetadataCredits(element)
    ELSE IF element.tag = "description" THEN testMetadataDescription(element)
    ELSE IF element.tag = "license" THEN testMetadataLicense(element)
    ELSE IF element.tag = "copyright" THEN testMetadataCopyright(element)
    ELSE IF element.tag = "trademark" THEN testMetadataTrademark(element)
    ELSE IF element.tag = "licensee" THEN testMetadataLicensee(element)
    ELSE <<MFinding("WARNING", "Unknown element.", <<element.tag>>)>>

testMetadataChildElements(tree) ==
    testMetadataElementExistence(tree) \o testMetadataDuplicateElements(tree)
    \o ConcatAll([i \in 1..Len(tree.children) |-> testMetadataChildElement(tree.children[i])])

topElementErrors(tree, unknown) ==
    (IF tree.tag # "metadata"
     THEN <<MFinding("ERROR", "The top element is not metadata.", <<>>)>> ELSE <<>>)
    \o [i \in 1..Len(unknown) |->
            MFinding("ERROR", "Unknown attribute in metadata element.", <<unknown[i]>>)]
    \o (IF "version" \notin DOMAIN tree.attrib
        THEN <<MFinding("ERROR", "The version attribute is not defined in metadata element.", <<>>)>>
        ELSE IF tree.attrib["version"] # "1.0"
        THEN <<MFinding("ERROR", "Invalid value for version attribute in metadata element.", <<>>)>>
        ELSE <<>>)
    \o (IF ~Blank(tree.text)
        THEN <<MFinding("ERROR", "Text defined in metadata element.", <<>>)>> ELSE <<>>)
topElementLog(errors) == errors \o PassIf(errors = <<>>, "metadata")
testMetadataStructureTopElement(tree) ==
    topElementLog(topElementErrors(tree, SortNames(DOMAIN tree.attrib \ {"version"})))

(* ---------------- tools/validate.py: metadata and private data tests ---------------- *)

\* unpackMetadata(data, decompress=False, parse=False)
metadataSliceOf(data, header) ==
    Slice(data, header.metaOffset, header.metaOffset + header.metaLength)
metadataSlice(data) == metadataSliceOf(data, unpackHeader(data))
\* unpackMetadata(data, parse=False) raises zlib.error on bytes that are no stream
inflates(compressed) == compressed = <<>> \/ zlibOk(compressed)
\* zlib.decompress of the metadata; empty bytes are returned as they are
inflated(compressed) == IF compressed = <<>> THEN <<>> ELSE zlibDecompress(compressed)

\* shouldSkipMetadataTest
shouldSkipMetadataTestOf(header) == header.metaOffset = 0 \/ header.metaLength = 0
shouldSkipMetadataTest(data) == shouldSkipMetadataTestOf(unpackHeader(data))
NoMetadata == Result(<<Note("No metadata to test.", <<>>)>>, FALSE)

\* the borders check the metadata test and the private data test share
blockEnds(header, directory, withMetadata) ==
    <<headerSize + (directorySize * header.numTables)>>
    \o [i \in 1..Len(directory) |-> directory[i].offset + directory[i].compLength]
    \o (IF withMetadata /\ header.metaOffset # 0
        THEN <<header.metaOffset + header.metaLength>> ELSE <<>>)
\* borders that let a block start anywhere behind what precedes it
blockBordersAnyStart(blockOffset, blockLength, totalLength, minOffset, what) ==
    IF blockOffset < minOffset \/ blockOffset > totalLength
    THEN Result(<<Error("The metadata has an invalid offset.", what)>>, FALSE)
    ELSE IF (blockOffset + blockLength) > totalLength
            \/ blockLength > totalLength - minOffset
    THEN Result(<<Error("The metadata has an invalid length.", what)>>, FALSE)
    ELSE Result(<<Pass(<<>>)>>, FALSE)
blockBorders(blockOffset, blockLength, totalLength, minOffset, what) ==
    IF blockOffset < minOffset \/ blockOffset > totalLength
    THEN Result(<<Error("The metadata has an invalid offset.", what)>>, FALSE)
    ELSE IF (blockOffset + blockLength) > totalLength
            \/ blockLength > totalLength - minOffset
    THEN Result(<<Error("The metadata has an invalid length.", what)>>, FALSE)
    ELSE IF blockOffset # minOffset
    THEN Result(<<Error("The metadata has an invalid offset.", what)>>, FALSE)
    ELSE Result(<<Pass(<<>>)>>, FALSE)
blockOffsetAndLength(data, blockOffset, blockLength, withMetadata, what) ==
    IF blockOffset = 0 \/ blockLength = 0
    THEN IF blockOffset = 0 /\ blockLength = 0
         THEN Result(<<Pass(<<>>)>>, FALSE)
         ELSE Result(<<Error("The offset and length are not properly set. If one is 0, they both must be 0.", what)>>, FALSE)
    ELSE IF blockOffset % 4 # 0
    THEN Result(<<Error("The block does not begin on a four-byte boundary.", what)>>, FALSE)
    ELSE IF ~directoryUnpacks(data) THEN Escapes(<<>>, "struct.error")
    ELSE blockBorders(blockOffset, blockLength, U32At(data, 8),
            roundUp4(SeqMax(blockEnds(unpackHeader(data), unpackDirectory(data), withMetadata))),
            what)

testMetadataOffsetAndLength(data) ==
    blockOffsetAndLength(data, U32At(data, 24), U32At(data, 28), FALSE, <<109>>)

\* a decompression test that logs its ERROR and lets the run go on
testMetadataDecompressionNoStop(data) ==
    IF shouldSkipMetadataTest(data) THEN NoMetadata
    ELSE IF ~zlibOk(metadataSlice(data))
    THEN Result(<<Error("The metdata can not be decompressed with zlib.", <<>>)>>, FALSE)
    ELSE Result(<<Pass(<<>>)>>, FALSE)

testMetadataDecompression(data) ==
    IF shouldSkipMetadataTest(data) THEN NoMetadata
    ELSE IF ~zlibOk(metadataSlice(data))
    THEN Result(<<Error("The metdata can not be decompressed with zlib.", <<>>)>>, TRUE)
    ELSE Result(<<Pass(<<>>)>>, FALSE)

testMetadataDecompressedLengthOf(metaOrigLength, compressed) ==
    IF ~inflates(compressed) THEN Escapes(<<>>, "zlib.error")
    ELSE IF metaOrigLength # Len(inflated(compressed))
    THEN Result(<<Error("The decompressed metadata length does not match the original metadata length in the header.", <<>>)>>, FALSE)
    ELSE Result(<<Pass(<<>>)>>, FALSE)
testMetadataDecompressedLength(data) ==
    IF shouldSkipMetadataTest(data) THEN NoMetadata
    ELSE testMetadataDecompressedLengthOf(U32At(data, 32), metadataSlice(data))

\* ElementTree.fromstring raises ExpatError on bytes that are no document
testMetadataParseOf(compressed) ==
    IF ~inflates(compressed) THEN Escapes(<<>>, "zlib.error")
    ELSE IF ~xmlParses(inflated(compressed))
    THEN Result(<<Error("The metadata can not be parsed.", <<>>)>>, TRUE)
    ELSE Result(<<Pass(<<>>)>>, FALSE)
testMetadataParse(data) ==
    IF shouldSkipMetadataTest(data) THEN NoMetadata
    ELSE testMetadataParseOf(metadataSlice(data))

\* unpackMetadata(data) leaves empty bytes unparsed: the tree is then the
\* empty string, and reading its tag raises AttributeError
testMetadataStructureOf(tree) ==
    Result(testMetadataStructureTopElement(tree) \o testMetadataChildElements(tree), FALSE)
testMetadataStructureParse(metadata) ==
    IF metadata = <<>> THEN Escapes(<<>>, "AttributeError")
    ELSE IF ~xmlParses(metadata) THEN Escapes(<<>>, "ExpatError")
    ELSE testMetadataStructureOf(fromstring(metadata))
testMetadataStructureUnpack(compressed) ==
    IF ~inflates(compressed) THEN Escapes(<<>>, "zlib.error")
    ELSE testMetadataStructureParse(inflated(compressed))
testMetadataStructure(data) ==
    IF shouldSkipMetadataTest(data) THEN NoMetadata
    ELSE testMetadataStructureUnpack(metadataSlice(data))

testPrivateDataOffsetAndLength(data) ==
    blockOffsetAndLength(data, U32At(data, 36), U32At(data, 40), TRUE, <<112>>)

(* ---------------- tools/validate.py: validateFont ---------------- *)

\* the titles of the list `tests`
tests == <<"Header - Size", "Header - Structure", "Header - Signature",
           "Header - Flavor", "Header - Length", "Header - Reserved",
           "Header - Total sfnt Size", "Header - Version",
           "Header - Number of Tables", "Directory - Table Order",
           "Directory - Table Borders", "Directory - Compressed Length",
           "Directory - Table Checksums", "Tables - Start Position",
           "Tables - Padding", "Tables - Decompression",
           "Tables - Original Length", "Tables - checkSumAdjustment",
           "Tables - DSIG", "Metadata - Offset and Length",
           "Metadata - Decompression", "Metadata - Original Length",
           "Metadata - Parse", "Metadata - Structure",
           "Private Data - Offset and Length">>

\* the function the list pairs with the i-th title
testFunc(i, data) ==
    CASE i = 1 -> testHeaderSize(data)
      [] i = 2 -> testHeaderStructure(data)
      [] i = 3 -> testHeaderSignature(data)
      [] i = 4 -> testHeaderFlavor(data)
      [] i = 5 -> testHeaderLength(data)
      [] i = 6 -> testHeaderReserved(data)
      [] i = 7 -> testHeaderTotalSFNTSize(data)
      [] i = 8 -> testHeaderMajorVersionAndMinorVersion(data)
      [] i = 9 -> testHeaderNumTables(data)
      [] i = 10 -> testDirectoryTableOrder(data)
      [] i = 11 -> testDirectoryBorders(data)
      [] i = 12 -> testDirectoryCompressedLength(data)
      [] i = 13 -> testDirectoryChecksums(data)
      [] i = 14 -> testTableDataStart(data)
      [] i = 15 -> testTablePadding(data)
      [] i = 16 -> testTableDecompression(data)
      [] i = 17 -> testDirectoryDecompressedLength(data)
      [] i = 18 -> testHeadCheckSumAdjustment(data)
      [] i = 19 -> testDSIG(data)
      [] i = 20 -> testMetadataOffsetAndLength(data)
      [] i = 21 -> testMetadataDecompression(data)
      [] i = 22 -> testMetadataDecompressedLength(data)
      [] i = 23 -> testMetadataParse(data)
      [] i = 24 -> testMetadataStructure(data)
      [] i = 25 -> testPrivateDataOffsetAndLength(data)

\* a TestResultGroup; stop and exc record what the test did after logging
TestResultGroup(title, r) ==
    [title |-> title, findings |-> r.findings, stop |-> r.stop, exc |-> r.exc]

\* the loop without its break
RECURSIVE runTestsNoBreak(_, _)
RECURSIVE runTestsNoBreakAfter(_, _, _)
runTestsNoBreakAfter(data, i, group) ==
    IF group.exc # "" THEN <<group>>
    ELSE <<group>> \o runTestsNoBreak(data, i + 1)
runTestsNoBreak(data, i) ==
    IF i > Len(tests) THEN <<>>
    ELSE runTestsNoBreakAfter(data, i, TestResultGroup(tests[i], testFunc(i, data)))

\* the loop over `tests`, from the i-th test on: the groups it registers
RECURSIVE runTests(_, _)
RECURSIVE runTestsAfter(_, _, _)
\* what follows a test: the break on an error that stops validation
runTestsAfter(data, i, group) ==
    IF group.exc # "" \/ group.stop THEN <<group>>
    ELSE <<group>> \o runTests(data, i + 1)
runTests(data, i) ==
    IF i > Len(tests) THEN <<>>
    ELSE runTestsAfter(data, i, TestResultGroup(tests[i], testFunc(i, data)))

\* validateFont: the reporter it leaves behind.  raised is the exception
\* that ends the call ("" when it returns its report); haveReadError is
\* assigned after the loop only.
reporterOf(testResults, last) ==
    [testResults |-> testResults,
     haveReadError |-> IF last.exc # "" THEN FALSE ELSE last.stop,
     raised |-> last.exc]
reporter(testResults) == reporterOf(testResults, testResults[Len(testResults)])
validateFont(data) == reporter(runTests(data, 1))

(* ---------------- the state machine ---------------- *)

VARIABLES
    font,       \* the WOFFFont object: <<>> before it is made, <<f>> after
    writer,     \* the WOFFWriter object: <<>> before it is made, <<w>> after
    wstat,      \* "none", "open", "closed" (close returned), "failed" (a call raised)
    disk,       \* the file: exists, its bytes, and who wrote them
    err,        \* the exception the last call raised, "" when none
    report,     \* <<>> before validateFont ran, <<its reporter>> after
    calls,      \* number of setTable calls made on the writer
    got         \* <<>> before a table was read from the reader, <<what reader[tag] did>> after

vars == <<font, writer, wstat, disk, err, report, calls, got>>

\* bounds
MaxTables == 2
MaxCalls == 3

\* the inputs of the writer
H12 == Cells(<<0, 1, 0, 0, 95, 15, 60, 245, 7, 7, 7, 7>>)
H14 == Cells(<<255, 255, 255, 255, 255, 254, 0, 0, 1, 2, 3, 4, 200, 9>>)
G16 == Zeros(16)
TableInput(tag, data) == [tag |-> tag, data |-> data, given |-> <<>>]
\* a table handed over compressed, as a reader yields it
Precompressed(tag, data) ==
    [tag |-> tag, data |-> zlibCompress(data),
     given |-> <<[origLength |-> Len(data), origChecksum |-> calcTableChecksum(tag, data),
                  compLength |-> Len(zlibCompress(data))]>>]
TableInputs ==
    {TableInput(TagHead, H12), TableInput(TagHead, H14),
     TableInput(TagGlyf, <<>>), TableInput(TagGlyf, G16),
     TableInput(TagCFF, Cells(<<1, 0, 4, 1>>)),
     Precompressed(TagGlyf, G16)}
WriterConfigs ==
    {[flavor |-> FlavorTrueType, majorVersion |-> 1, recalculateHeadChecksum |-> TRUE],
     [flavor |-> FlavorTrueType, majorVersion |-> 1, recalculateHeadChecksum |-> FALSE],
     [flavor |-> FlavorOTTO, majorVersion |-> 0, recalculateHeadChecksum |-> TRUE]}
MetadataInputs == {xmlBytes(2)}
PrivateInputs == {Cells(<<1, 2, 3>>)}

NoFile == [exists |-> FALSE, data |-> <<>>, origin |-> "none"]

Init ==
    /\ font = <<>>
    /\ writer = <<>>
    /\ wstat = "none"
    /\ disk = NoFile
    /\ err = ""
    /\ report = <<>>
    /\ calls = 0
    /\ got = <<>>

\* WOFFWriter(file, numTables, flavor, majorVersion, 0, recalculateHeadChecksum)
\* on a file the caller has just opened for writing
NewWriter ==
    /\ wstat = "none" /\ font = <<>> /\ ~disk.exists
    /\ \E numTables \in 0..MaxTables, c \in WriterConfigs :
        writer' = <<WOFFWriter(numTables, c.flavor, c.majorVersion, 0,
                               c.recalculateHeadChecksum)>>
    /\ wstat' = "open"
    /\ disk' = [exists |-> TRUE, data |-> <<>>, origin |-> "none"]
    /\ UNCHANGED <<font, err, report, calls, got>>

SetTableFrom(inputs) ==
    /\ wstat = "open" /\ calls < MaxCalls
    /\ \E t \in inputs :
        \E r \in {setTable(writer[1], t.tag, t.data, t.given)} :
           /\ writer' = <<r.w>>
           /\ err' = r.err
           /\ wstat' = IF r.err = "" THEN "open" ELSE "failed"
    /\ calls' = calls + 1
    /\ UNCHANGED <<font, disk, report, got>>

SetTable == SetTableFrom(TableInputs)

SetMetadata ==
    /\ wstat = "open"
    /\ \E data \in MetadataInputs : writer' = <<setMetadata(writer[1], data, <<>>)>>
    /\ UNCHANGED <<font, wstat, disk, err, report, calls, got>>

SetPrivateData ==
    /\ wstat = "open"
    /\ \E data \in PrivateInputs : writer' = <<setPrivateData(writer[1], data)>>
    /\ UNCHANGED <<font, wstat, disk, err, report, calls, got>>

Close ==
    /\ wstat = "open"
    /\ \E order \in tableOrder(writer[1]) :
        \E r \in {close(writer[1], disk.data, order)} :
           /\ writer' = <<r.w>>
           /\ err' = r.err
           /\ wstat' = IF r.err = "" THEN "closed" ELSE "failed"
           /\ disk' = [exists |-> TRUE, data |-> r.f,
                       origin |-> IF r.err = "" THEN "writer" ELSE disk.origin]
    /\ UNCHANGED <<font, report, calls, got>>

\* validateFont(path, options) on the file
Validate ==
    /\ disk.exists /\ wstat # "open" /\ report = <<>>
    /\ report' = <<validateFont(disk.data)>>
    /\ UNCHANGED <<font, writer, wstat, disk, err, calls, got>>

Next ==
    \/ NewWriter
    \/ SetTable
    \/ SetMetadata
    \/ SetPrivateData
    \/ Close
    \/ Validate

Spec == Init /\ [][Next]_vars

(* ---------------- the writer on head tables of any length ---------------- *)

\* head tables that end before or inside the checkSumAdjustment field
H10 == Cells(<<0, 1, 0, 0, 0, 0, 16, 0, 5, 5>>)
H6 == Cells(<<0, 1, 0, 0, 0, 0>>)
ShortHeads == {TableInput(TagHead, H10), TableInput(TagHead, H6)}

SetShortHead == SetTableFrom(ShortHeads)

NextHead ==
    \/ NewWriter
    \/ SetTable
    \/ SetShortHead
    \/ Close

SpecHead == Init /\ [][NextHead]_vars

(* ---------------- the writer at the compression boundary ---------------- *)

\* tables whose stream is as long as they are (11 bytes), and one byte
\* shorter than they are (12 bytes)
Z11 == Zeros(11)
Z12 == Zeros(12)
BoundaryTables == {TableInput(TagGlyf, Z11), TableInput(TagCFF, Z12)}

SetBoundaryTable == SetTableFrom(BoundaryTables)

NextCompress ==
    \/ NewWriter
    \/ SetTable
    \/ SetBoundaryTable
    \/ Close

SpecCompress == Init /\ [][NextCompress]_vars

(* ---------------- the writer on entries the caller supplies ---------------- *)

\* setTable(tag, data, origLength=..., origChecksum=..., compLength=...)
Given(tag, data, origLength, origChecksum, compLength) ==
    [tag |-> tag, data |-> data,
     given |-> <<[origLength |-> origLength, origChecksum |-> origChecksum,
                  compLength |-> compLength]>>]
\* entries that are right, and entries wrong in one field each
GivenTables ==
    {Given(TagGlyf, G16, 16, calcTableChecksum(TagGlyf, G16), 16),
     Given(TagGlyf, G16, 12, calcTableChecksum(TagGlyf, G16), 16),
     Given(TagGlyf, zlibCompress(G16), 20, calcTableChecksum(TagGlyf, G16), 11),
     Given(TagGlyf, zlibCompress(G16), 16, <<0, 1>>, 11),
     Given(TagCFF, zlibCompress(G16), 16, calcTableChecksum(TagCFF, G16), 10),
     Given(TagCFF, G16, 20, calcTableChecksum(TagCFF, G16), 16),
     Given(TagHead, H12, 12, <<0, 1>>, 12)}

SetGivenTable == SetTableFrom(GivenTables)

NextGiven ==
    \/ NewWriter
    \/ SetTable
    \/ SetGivenTable
    \/ Close

SpecGiven == Init /\ [][NextGiven]_vars

(* ---------------- the font and its save ---------------- *)

D5 == Cells(<<1, 2, 3, 4, 5>>)
\* the tables a caller puts into a font
FontTables ==
    {TableInput(TagHead, H14), TableInput(TagGlyf, G16), TableInput(TagGlyf, <<>>),
     TableInput(TagCFF, Cells(<<1, 0, 4, 1>>)), TableInput(TagDSIG, D5)}
\* the orders a caller sets
FontOrders ==
    {<<TagHead, TagDSIG>>, <<TagDSIG, TagHead>>, <<TagDSIG>>, <<TagGlyf, TagDSIG, TagHead>>}

NewFont ==
    /\ font = <<>> /\ wstat = "none"
    /\ \E flavor \in {FlavorTrueType, FlavorOTTO} : font' = <<WOFFFont(flavor)>>
    /\ UNCHANGED <<writer, wstat, disk, err, report, calls, got>>

\* font.majorVersion = 1
FontSetVersion ==
    /\ font # <<>> /\ wstat = "none"
    /\ font' = <<[font[1] EXCEPT !.majorVersion = 1]>>
    /\ UNCHANGED <<writer, wstat, disk, err, report, calls, got>>

\* font[tag] = table
FontSetTableFrom(tables) ==
    /\ font # <<>> /\ wstat = "none"
    /\ \E t \in tables :
        /\ Cardinality(DOMAIN font[1].tables \cup {t.tag}) <= MaxTables + 1
        /\ font' = <<[font[1] EXCEPT !.tables = DictSet(font[1].tables, t.tag, t.data)]>>
    /\ UNCHANGED <<writer, wstat, disk, err, report, calls, got>>
FontSetTable == FontSetTableFrom(FontTables)

\* font.setTableOrder(order)
FontSetTableOrderFrom(orders) ==
    /\ font # <<>> /\ wstat = "none"
    /\ \E order \in orders : font' = <<setTableOrder(font[1], order)>>
    /\ UNCHANGED <<writer, wstat, disk, err, report, calls, got>>
FontSetTableOrder == FontSetTableOrderFrom(FontOrders)

\* font.privateData = data
FontSetPrivateData ==
    /\ font # <<>> /\ wstat = "none"
    /\ \E data \in PrivateInputs : font' = <<[font[1] EXCEPT !.privateData = <<data>>]>>
    /\ UNCHANGED <<writer, wstat, disk, err, report, calls, got>>

\* font.save(path, reorderTables=..., recalculateHeadChecksum=...)
SaveWith(reorderTables, recalculateHeadChecksum) ==
    /\ font # <<>> /\ wstat = "none"
    /\ \E r \in {save(font[1], disk, reorderTables, recalculateHeadChecksum)} :
          /\ disk' = r.file
          /\ writer' = r.writer
          /\ err' = r.err
          /\ wstat' = IF r.err = "" THEN "closed" ELSE "failed"
          /\ font' = <<r.font>>
    /\ UNCHANGED <<report, calls, got>>

Save == \E reorderTables, recalculateHeadChecksum \in BOOLEAN :
            SaveWith(reorderTables, recalculateHeadChecksum)

NextFont ==
    \/ NewFont
    \/ FontSetVersion
    \/ FontSetTable
    \/ FontSetTableOrder
    \/ FontSetPrivateData
    \/ Save
    \/ Validate

SpecFont == Init /\ [][NextFont]_vars

(* ---------------- the validator on arbitrary files ---------------- *)

\* Files written by the writer, and what one wrong byte or a cut makes of
\* them: the validator reads whatever bytes are at the path.
RECURSIVE SetAll(_, _)
SetAll(w, inputs) ==
    IF inputs = <<>> THEN w
    ELSE SetAll(setTable(w, Head(inputs).tag, Head(inputs).data, Head(inputs).given).w,
                Tail(inputs))
Written(w, order) == close(w, <<>>, order).f
BaseFiles ==
    {Written(setPrivateData(setMetadata(
                SetAll(WOFFWriter(1, FlavorTrueType, 1, 0, TRUE), <<TableInput(TagHead, H14)>>),
                xmlBytes(2), <<>>), Cells(<<1, 2, 3>>)), <<TagHead>>),
     Written(SetAll(WOFFWriter(2, FlavorTrueType, 1, 0, TRUE),
                <<TableInput(TagHead, H14), TableInput(TagGlyf, G16)>>), <<TagHead, TagGlyf>>)}
Overwrite(data, pos, cell) == [i \in 1..Len(data) |-> IF i = pos THEN cell ELSE data[i]]
InputFiles ==
    UNION {{f} \cup {Slice(f, 0, n) : n \in 0..Len(f)}
               \cup {Overwrite(f, pos, <<v>>) : pos \in 1..Len(f), v \in {0, 1}}
           : f \in BaseFiles}

InitValidator ==
    /\ font = <<>>
    /\ writer = <<>>
    /\ wstat = "none"
    /\ disk \in {[exists |-> TRUE, data |-> d, origin |-> "input"] : d \in InputFiles}
    /\ err = ""
    /\ report = <<>>
    /\ calls = 0
    /\ got = <<>>

NextValidator == Validate

SpecValidator == InitValidator /\ [][NextValidator]_vars

(* ---------------- reading a WOFF file ---------------- *)

\* files a WOFFWriter wrote: a head table with metadata and private data; a
\* head and a compressed glyf table, whose directory order (glyf, head) is
\* not the order of their offsets; a CFF and a head table with metadata
\* only; a head table with private data only
WrittenFiles ==
    BaseFiles \cup
    {Written(setMetadata(SetAll(WOFFWriter(2, FlavorOTTO, 1, 2, FALSE),
                                <<TableInput(TagHead, H12), TableInput(TagCFF, G16)>>),
                         xmlBytes(2), <<>>), <<TagHead, TagCFF>>),
     Written(setPrivateData(SetAll(WOFFWriter(1, FlavorTrueType, 0, 1, FALSE),
                                   <<TableInput(TagHead, H12)>>),
                            Cells(<<1, 2, 3>>)), <<TagHead>>)}
\* the file of two tables with one byte of its header or directory changed
DamagedFiles ==
    {Overwrite(Written(SetAll(WOFFWriter(2, FlavorTrueType, 1, 0, TRUE),
                              <<TableInput(TagHead, H14), TableInput(TagGlyf, G16)>>),
                       <<TagHead, TagGlyf>>), pos, <<v>>)
        : pos \in 1..(woffHeaderSize + (2 * woffDirectoryEntrySize)), v \in {0, 1}}
CutFiles == {Slice(f, 0, n) : f \in BaseFiles, n \in {0, 8, 43, 44, 64}}
ReaderFiles == WrittenFiles \cup DamagedFiles \cup CutFiles
CheckChecksumsInputs == {0, 1, 2}

\* what a call on the reader did
Got(call, file, tag, r) ==
    [call |-> call, file |-> file, tag |-> tag, data |-> r.data, err |-> r.err,
     printed |-> r.printed]

\* font = WOFFFont(file, checkChecksums=...)
OpenFontOf(file, r) ==
    /\ font' = IF r.err = "" THEN <<WOFFFontFrom(r.r[1])>> ELSE <<>>
    /\ err' = r.err
    /\ got' = <<Got("open", file, <<>>, [data |-> <<>>, err |-> r.err, printed |-> <<>>])>>
OpenFontFrom(files, modes) ==
    /\ font = <<>> /\ wstat = "none" /\ got = <<>>
    /\ \E file \in files, checkChecksums \in modes :
          OpenFontOf(file, WOFFReader(file, checkChecksums))
    /\ UNCHANGED <<writer, wstat, disk, report, calls>>
OpenFont == OpenFontFrom(ReaderFiles, CheckChecksumsInputs)

\* font.reader[tag]
ReadTable ==
    /\ font # <<>> /\ font[1].reader # <<>> /\ wstat = "none"
    /\ \E tag \in DOMAIN font[1].reader[1].tables :
          got' = <<Got("getitem", <<>>, tag, getitem(font[1].reader[1], tag))>>
    /\ UNCHANGED <<font, writer, wstat, disk, err, report, calls>>

\* font.save(path, recompressTables=False, reorderTables=False,
\* recalculateHeadChecksum=False)
SaveUnchanged == SaveWith(FALSE, FALSE)

NextReader == OpenFont \/ ReadTable \/ SaveUnchanged

SpecReader == Init /\ [][NextReader]_vars

(* ---------------- the tags of a font ---------------- *)

\* the tables and orders a caller sets, the GlyphOrder pseudo table among them
KeysTables ==
    {TableInput(GlyphOrder, Cells(<<1>>)), TableInput(TagHead, H12), TableInput(TagGlyf, G16)}
KeysOrders ==
    {<<GlyphOrder, TagGlyf>>, <<TagGlyf, TagHead>>, <<TagGlyf, GlyphOrder, TagHead>>}
OpenWrittenFont == OpenFontFrom(WrittenFiles, {0})
FontSetKeysTable == FontSetTableFrom(KeysTables)
FontSetKeysOrder == FontSetTableOrderFrom(KeysOrders)

NextKeys == NewFont \/ OpenWrittenFont \/ FontSetKeysTable \/ FontSetKeysOrder \/ Save

SpecKeys == Init /\ [][NextKeys]_vars

(* ---------------- the validator on edited directories ---------------- *)

\* data with the cells at pos .. pos + Len(cells) - 1 (from 0) replaced
SetCells(data, pos, cells) ==
    [i \in 1..Len(data) |->
        IF i > pos /\ i <= pos + Len(cells) THEN cells[i - pos] ELSE data[i]]
\* the i-th directory entry given another tag, offset and compLength
SetEntry(data, i, tag, offset, compLength) ==
    SetCells(data, headerSize + (directorySize * (i - 1)),
             TagCells(tag) \o U32Cells(offset) \o U32Cells(compLength))
\* the file of a head table (14 bytes at 84) and a compressed glyf table (11
\* bytes at 100), 112 bytes long, whose directory lists glyf, then head
TwoTables ==
    Written(SetAll(WOFFWriter(2, FlavorTrueType, 1, 0, TRUE),
                   <<TableInput(TagHead, H14), TableInput(TagGlyf, G16)>>),
            <<TagHead, TagGlyf>>)
DirectoryFiles ==
    {SetEntry(SetEntry(TwoTables, 1, t1, o1, c1), 2, t2, o2, 14)
        : t1 \in {TagCFF, TagGlyf, TagHead}, o1 \in {0, 80, 100, 104, 112, 116},
          c1 \in {0, 11, 12}, t2 \in {TagGlyf, TagHead}, o2 \in {40, 84}}

InitDirectory ==
    /\ font = <<>>
    /\ writer = <<>>
    /\ wstat = "none"
    /\ disk \in {[exists |-> TRUE, data |-> d, origin |-> "input"] : d \in DirectoryFiles}
    /\ err = ""
    /\ report = <<>>
    /\ calls = 0
    /\ got = <<>>

NextDirectory == Validate

SpecDirectory == InitDirectory /\ [][NextDirectory]_vars

(* ---------------- the validator on edited block fields ---------------- *)

\* the file of a head table (14 bytes at 64), metadata (11 bytes at 80) and
\* three bytes of private data at 92, 95 bytes long
WithBlocks ==
    Written(setPrivateData(setMetadata(
                SetAll(WOFFWriter(1, FlavorTrueType, 1, 0, TRUE), <<TableInput(TagHead, H14)>>),
                xmlBytes(2), <<>>), Cells(<<1, 2, 3>>)), <<TagHead>>)
\* the header given other offsets and lengths of the two blocks
SetBlocks(data, metaOffset, metaLength, privOffset, privLength) ==
    SetCells(SetCells(data, 24, U32Cells(metaOffset) \o U32Cells(metaLength)),
             36, U32Cells(privOffset) \o U32Cells(privLength))
BlockFiles ==
    {SetBlocks(WithBlocks, mo, ml, po, pl)
        : mo \in {0, 78, 80, 84, 88}, ml \in {0, 11, 16},
          po \in {0, 80, 90, 92, 96}, pl \in {0, 3, 4}}

InitBlocks ==
    /\ font = <<>>
    /\ writer = <<>>
    /\ wstat = "none"
    /\ disk \in {[exists |-> TRUE, data |-> d, origin |-> "input"] : d \in BlockFiles}
    /\ err = ""
    /\ report = <<>>
    /\ calls = 0
    /\ got = <<>>

NextBlocks == Validate

SpecBlocks == InitBlocks /\ [][NextBlocks]_vars

(* ---------------- the validator on metadata documents ---------------- *)

\* files a writer wrote around each document of MetaDocs
WithMetadata(k, tables, private, majorVersion, recalculateHeadChecksum) ==
    Written(setPrivateData(setMetadata(
                SetAll(WOFFWriter(Len(tables), FlavorTrueType, majorVersion, 0,
                                  recalculateHeadChecksum), tables),
                xmlBytes(k), <<>>), private),
            [i \in 1..Len(tables) |-> tables[i].tag])
MetadataFiles ==
    {WithMetadata(k, tables, private, majorVersion, recalculateHeadChecksum)
        : k \in 1..Len(MetaDocs),
          tables \in {<<TableInput(TagHead, H14)>>,
                      <<TableInput(TagHead, H14), TableInput(TagGlyf, G16)>>},
          private \in {<<>>, Cells(<<1, 2, 3>>)},
          majorVersion \in {0, 1},
          recalculateHeadChecksum \in BOOLEAN}

InitMetadata ==
    /\ font = <<>>
    /\ writer = <<>>
    /\ wstat = "none"
    /\ disk \in {[exists |-> TRUE, data |-> d, origin |-> "input"] : d \in MetadataFiles}
    /\ err = ""
    /\ report = <<>>
    /\ calls = 0
    /\ got = <<>>

NextMetadata == Validate

SpecMetadata == InitMetadata /\ [][NextMetadata]_vars

(* ---------------- the padding of a length ---------------- *)

\* the lengths the padding is computed for
MaxLength == 63

InitPadding ==
    /\ font = <<>>
    /\ writer = <<>>
    /\ wstat = "none"
    /\ disk = [exists |-> FALSE, data |-> <<>>, origin |-> "none"]
    /\ err = ""
    /\ report = <<>>
    /\ calls = 0
    /\ got \in {<<[length |-> n, called |-> FALSE, padding |-> 0, padded |-> 0]>>
                    : n \in 0..MaxLength}

\* calcPaddingLength(length) and len(padData(data)) for data of that length
CalcPaddingLength ==
    /\ got # <<>>
    /\ ~got[1].called
    /\ got' = <<[length |-> got[1].length,
                 called |-> TRUE,
                 padding |-> calcPaddingLength(got[1].length),
                 padded |-> Len(padData(Zeros(got[1].length)))]>>
    /\ UNCHANGED <<font, writer, wstat, disk, err, report, calls>>

NextPadding == CalcPaddingLength

SpecPadding == InitPadding /\ [][NextPadding]_vars

(* ---------------- the overlaps of an sfnt table directory ---------------- *)

\* str.strip() of a tag
RECURSIVE lstrip(_)
lstrip(s) == IF s # <<>> /\ Head(s) = 32 THEN lstrip(Tail(s)) ELSE s
RECURSIVE rstrip(_)
rstrip(s) == IF s # <<>> /\ s[Len(s)] = 32 THEN rstrip(SubSeq(s, 1, Len(s) - 1)) ELSE s
strip(s) == lstrip(rstrip(s))

\* edges[entry["tag"]] = (start, end): a later entry of a tag replaces an
\* earlier one
edges(tableDirectory, tag) ==
    LET last == CHOOSE i \in 1..Len(tableDirectory) :
                    /\ tableDirectory[i].tag = tag
                    /\ \A j \in (i + 1)..Len(tableDirectory) : tableDirectory[j].tag # tag
    IN <<tableDirectory[last].offset,
         tableDirectory[last].offset + tableDirectory[last].length>>
\* tuple(sorted((tag, otherTag)))
sortedPair(tag, otherTag) ==
    IF LexLess(otherTag, tag) THEN <<otherTag, tag>> ELSE <<tag, otherTag>>
\* the two tests of the inner loop
overlapsTest(start, end, otherStart, otherEnd) ==
    \/ start >= otherStart /\ start < otherEnd
    \/ end > otherStart /\ end <= otherEnd
overlapsPair(e, o) == overlapsTest(e[1], e[2], o[1], o[2])
\* sorted(overlaps)
RECURSIVE sortedPairs(_)
sortedPairs(S) ==
    IF S = {} THEN <<>>
    ELSE LET m == CHOOSE p \in S : \A q \in S :
                    \/ q = p
                    \/ LexLess(p[1], q[1])
                    \/ (p[1] = q[1] /\ LexLess(p[2], q[2]))
         IN <<m>> \o sortedPairs(S \ {m})
\* the errors of _testOverlaps, each the two tags its message names
testOverlaps(tableDirectory) ==
    sortedPairs({sortedPair(strip(p[1]), strip(p[2])) :
        p \in {q \in Range([i \in 1..Len(tableDirectory) |-> tableDirectory[i].tag])
                     \X Range([i \in 1..Len(tableDirectory) |-> tableDirectory[i].tag]) :
                  /\ strip(q[1]) # strip(q[2])
                  /\ overlapsPair(edges(tableDirectory, q[1]),
                                  edges(tableDirectory, q[2]))}})

SfntEntry(tag, offset, length) == [tag |-> tag, offset |-> offset, length |-> length]
\* directories of two tables, of any tags, and of three tables
OverlapDirectories ==
    {<<SfntEntry(t1, o1, l1), SfntEntry(t2, o2, l2)>> :
        t1 \in {TagCFF, TagGlyf}, t2 \in {TagCFF, TagGlyf, TagHead},
        o1 \in {0, 4, 8}, l1 \in {0, 4, 8}, o2 \in {0, 4, 8}, l2 \in {0, 4, 6}}
    \cup {<<SfntEntry(TagCFF, 0, l1), SfntEntry(TagGlyf, o2, l2), SfntEntry(TagHead, o3, 4)>> :
        l1 \in {0, 4, 8}, o2 \in {0, 4}, l2 \in {0, 4, 8}, o3 \in {4, 8}}

InitOverlaps ==
    /\ font = <<>>
    /\ writer = <<>>
    /\ wstat = "none"
    /\ disk = [exists |-> FALSE, data |-> <<>>, origin |-> "none"]
    /\ err = ""
    /\ report = <<>>
    /\ calls = 0
    /\ got \in {<<[tableDirectory |-> d, called |-> FALSE, errors |-> <<>>]>>
                    : d \in OverlapDirectories}

TestOverlaps ==
    /\ got # <<>>
    /\ ~got[1].called
    /\ got' = <<[tableDirectory |-> got[1].tableDirectory,
                 called |-> TRUE,
                 errors |-> testOverlaps(got[1].tableDirectory)]>>
    /\ UNCHANGED <<font, writer, wstat, disk, err, report, calls>>

NextOverlaps == TestOverlaps

SpecOverlaps == InitOverlaps /\ [][NextOverlaps]_vars

(* ---------------- a second close ---------------- *)

\* what the first close left: the bytes of the file, the header fields and
\* the stored tables
Closed(w, f) ==
    [data |-> f, length |-> w.length, totalSFNTSize |-> w.totalSFNTSize,
     tables |-> w.tables]

\* writer.close() on a writer that is closed, with no call in between
CloseAgain ==
    /\ wstat = "closed"
    /\ \E order \in tableOrder(writer[1]) :
        \E r \in {close(writer[1], disk.data, order)} :
           /\ writer' = <<r.w>>
           /\ err' = r.err
           /\ disk' = [disk EXCEPT !.data = r.f]
    /\ wstat' = "closed again"
    /\ got' = <<Closed(writer[1], disk.data)>>
    /\ UNCHANGED <<font, report, calls>>

NextClose ==
    \/ NewWriter
    \/ SetTable
    \/ SetMetadata
    \/ SetPrivateData
    \/ Close
    \/ CloseAgain

SpecClose == Init /\ [][NextClose]_vars

(* ---------------- properties ---------------- *)

\* C1: validateFont runs the 25 tests in the listed order, Header - Size
\* first and Private Data - Offset and Length last, and registers one group
\* per test it runs, holding what that test logs; no test runs after one
\* that returned stop; haveReadError is true exactly when a test returned stop.
C1_PipelineOrder ==
    /\ Len(tests) = 25
    /\ tests[1] = "Header - Size"
    /\ tests[25] = "Private Data - Offset and Length"
    /\ report # <<>> =>
        LET r == report[1]
            n == Len(r.testResults)
        IN /\ n \in 1..25
           /\ \A i \in 1..n :
                /\ r.testResults[i].title = tests[i]
                /\ r.testResults[i].findings = testFunc(i, disk.data).findings
           /\ \A i \in 1..(n - 1) : ~testFunc(i, disk.data).stop
           /\ n < 25 => (testFunc(n, disk.data).stop \/ r.raised # "")
           /\ r.haveReadError = (\E i \in 1..n : testFunc(i, disk.data).stop)

\* a run that a stop of Header - Length ended after five groups
C1_StoppedAtLength ==
    /\ report # <<>>
    /\ Len(report[1].testResults) = 5
    /\ report[1].testResults[5].stop
    /\ report[1].haveReadError

\* C2 (as the specification states it): no exception escapes a test of the
\* pipeline, whatever the bytes of the file.
C2_NoExceptionEscapes ==
    report # <<>> => report[1].raised = ""

\* what the properties of the writer read from the state
FileOfWriter == wstat = "closed" /\ disk.origin = "writer"
\* the bytes of a table as they were before compression
Uncompressed(w, t) ==
    IF w.tables[t].entry.compLength < w.tables[t].entry.origLength
    THEN zlibDecompress(w.tables[t].data) ELSE w.tables[t].data
GroupTypes(i) ==
    [j \in 1..Len(report[1].testResults[i].findings) |->
        report[1].testResults[i].findings[j].type]
HeadRecalculated(w) == w.recalculateHeadChecksum /\ TagHead \in DOMAIN w.tables

\* C3 (as the specification states it): whatever the tables around head and
\* their lengths, the file of a writer that recalculated the head checksum
\* gets PASS from Tables - checkSumAdjustment.
C3_ChecksumLaw ==
    (report # <<>> /\ FileOfWriter /\ HeadRecalculated(writer[1]))
        => /\ Len(report[1].testResults) >= 18
           /\ GroupTypes(18) = <<"PASS">>

\* the sum the adjustment X completes: every origChecksum, the checksum of
\* the 12-byte sfnt header and the tag-sorted 16-byte entries whose offsets
\* advance by pad4(origLength) along the write order, and X itself
SfntSum(w, order, X) ==
    LET n == Cardinality(DOMAIN w.tables)
        tags == SortTags(DOMAIN w.tables)
        offset(t) == 12 + (16 * n)
            + SumSeq([k \in 1..(PosIn(order, t) - 1) |->
                ((w.tables[order[k]].entry.origLength + 3) \div 4) * 4])
        entry(t) == TagCells(t) \o WCells(w.tables[t].entry.origChecksum)
            \o U32Cells(offset(t)) \o U32Cells(w.tables[t].entry.origLength)
        directory == sfntHeaderCells(w.flavor, n)
            \o ConcatAll([i \in 1..n |-> entry(tags[i])])
    IN WMask32(WAdd(WAdd(WSum([i \in 1..n |-> w.tables[tags[i]].entry.origChecksum]),
                         calcChecksum(directory)), X))

C4_Law(w0, w1) ==
    /\ Len(Uncompressed(w1, TagHead)) >= 12
    /\ \E order \in tableOrder(w1) :
        SfntSum(w1, order, WAt(Uncompressed(w1, TagHead), 8)) = <<45488, 44986>>
    /\ w1.tables[TagHead].entry.origChecksum = w0.tables[TagHead].entry.origChecksum
    /\ w1.tables[TagHead].entry.origLength = w0.tables[TagHead].entry.origLength

\* C4 (as the specification states it): a close that recalculates the head
\* checksum leaves in bytes 8..12 of head the X that makes the sum
\* 0xB1B0AFBA, and leaves head's origChecksum and origLength as they were.
C4_AnyHead ==
    [][(wstat = "open" /\ wstat' = "closed" /\ HeadRecalculated(writer[1]))
        => C4_Law(writer[1], writer'[1])]_vars

\* C4, amended: the same for a head table of at least 12 bytes.
C4_HeadOfTwelveBytes ==
    [][(/\ wstat = "open" /\ wstat' = "closed" /\ HeadRecalculated(writer[1])
        /\ writer[1].tables[TagHead].entry.origLength >= 12)
        => C4_Law(writer[1], writer'[1])]_vars

\* a closed writer whose head follows a table of 16 bytes and holds an
\* adjustment of 2^31 or more
C4_Adjusted ==
    /\ FileOfWriter /\ HeadRecalculated(writer[1])
    /\ TagGlyf \in DOMAIN writer[1].tables
    /\ writer[1].tables[TagGlyf].entry.origLength = 16
    /\ writer[1].tables[TagGlyf].index < writer[1].tables[TagHead].index
    /\ writer[1].tables[TagHead].entry.origLength >= 12
    /\ WAt(Uncompressed(writer[1], TagHead), 8)[1] >= 32768

\* C5 (as the specification states it, and here only for the writers whose
\* head, if they have one, was recalculated): the file of a writer with at
\* least one table and a flavor that agrees with the presence of CFF runs
\* through all 25 tests without a stop and without an ERROR.
C5_WriterOutputValidates ==
    (/\ report # <<>> /\ FileOfWriter
     /\ (TagHead \in DOMAIN writer[1].tables => writer[1].recalculateHeadChecksum)
     /\ writer[1].numTables >= 1
     /\ writer[1].flavor \in {FlavorOTTO, FlavorTrueType, FlavorTrue}
     /\ (TagCFF \in DOMAIN writer[1].tables) = (writer[1].flavor = FlavorOTTO))
        => /\ Len(report[1].testResults) = 25
           /\ report[1].raised = ""
           /\ ~report[1].haveReadError
           /\ \A i \in 1..25 : \A j \in 1..Len(GroupTypes(i)) : GroupTypes(i)[j] # "ERROR"

\* what the properties of the font read from the state
Saved == font # <<>> /\ wstat \in {"closed", "failed"}
DSIGRefusals ==
    {"WOFFLibError: a complete table order must be supplied",
     "WOFFLibError: tables can not be reordered",
     "WOFFLibError: checkSumAdjustment can not be recalculated"}

\* C6 (as the specification states it): the save of a font with no tables
\* (flavor OTTO, version 1.0, no private data) fails with the error of a
\* wrong number of tables, and no file a writer emitted has numTables 0.
C6_EmptyFontRefused ==
    /\ (/\ Saved /\ DOMAIN font[1].tables = {}
        /\ font[1].flavor = FlavorOTTO /\ font[1].majorVersion = 1
        /\ font[1].privateData = <<>>)
        => (err = "WOFFLibError: wrong number of tables" /\ disk.origin # "writer")
    /\ FileOfWriter => U16At(disk.data, 12) >= 1

\* C7: a save of a font with a DSIG table raises WOFFLibError unless an
\* order was set that covers exactly the tags of the font and reorderTables
\* and recalculateHeadChecksum are both false; a save that is refused
\* leaves the file as it was and makes no writer.
C7_DSIGNeedsFixedLayout ==
    [][\A reorderTables, recalculateHeadChecksum \in BOOLEAN :
        (/\ SaveWith(reorderTables, recalculateHeadChecksum)
         /\ TagDSIG \in DOMAIN font[1].tables)
        => IF /\ font[1].tableOrder # <<>>
              /\ Range(font[1].tableOrder[1]) = DOMAIN font[1].tables
              /\ ~reorderTables /\ ~recalculateHeadChecksum
           THEN err' = "" /\ disk'.origin = "writer"
           ELSE err' \in DSIGRefusals /\ disk' = disk /\ writer' = <<>>]_vars

\* a font with DSIG and a complete order whose save was refused before the
\* file was opened
C7_RefusedWithOrder ==
    /\ Saved /\ TagDSIG \in DOMAIN font[1].tables
    /\ font[1].tableOrder # <<>>
    /\ Range(font[1].tableOrder[1]) = DOMAIN font[1].tables
    /\ err \in DSIGRefusals
    /\ ~disk.exists

\* what the properties of the layout read from the writer and the file
Pad4(n) == ((n + 3) \div 4) * 4
StoredLength(w, t) == Len(w.tables[t].data)
BodiesLength(w) ==
    LET tags == SortTags(DOMAIN w.tables)
    IN SumSeq([i \in 1..Len(tags) |-> Pad4(StoredLength(w, tags[i]))])
MetadataLength(w) == IF w.metadata = <<>> THEN 0 ELSE Len(w.metadata[1])
PrivateLength(w) == IF w.privateData = <<>> THEN 0 ELSE Len(w.privateData[1])
\* entry i (from 0) of the directory in the file
DirectoryTag(i) == TagAt(disk.data, 44 + (20 * i))
DirectoryOffset(i) == U32At(disk.data, 44 + (20 * i) + 4)
DirectoryCompLength(i) == U32At(disk.data, 44 + (20 * i) + 8)

\* C8: in the file of a closed writer the header's length is the number of
\* bytes of the file, which is 44 + 20 per table + the bodies padded to 4 +
\* the metadata (padded when private data follows) + the private data, and
\* the header's numTables is the number of directory entries.
C8_HeaderLength ==
    FileOfWriter =>
        LET w == writer[1]
            n == Cardinality(DOMAIN w.tables)
            meta == MetadataLength(w)
            priv == PrivateLength(w)
        IN /\ U32At(disk.data, 8) = Len(disk.data)
           /\ Len(disk.data) = 44 + (20 * n) + BodiesLength(w)
                + (IF priv > 0 THEN Pad4(meta) ELSE meta) + priv
           /\ U16At(disk.data, 12) = n
           /\ \A i \in 0..(n - 1) : DirectoryTag(i) \in DOMAIN w.tables

\* a file with two tables, metadata whose length is not a multiple of 4,
\* and private data
C8_PaddedMetadata ==
    /\ FileOfWriter
    /\ Cardinality(DOMAIN writer[1].tables) = 2
    /\ MetadataLength(writer[1]) % 4 # 0
    /\ PrivateLength(writer[1]) > 0

\* C9: every offset of the directory is a multiple of 4, metaOffset and
\* privOffset are multiples of 4 when they are not 0, and the bytes between
\* the end of a table body and the next 4-byte boundary are zero.
C9_Alignment ==
    FileOfWriter =>
        LET n == Cardinality(DOMAIN writer[1].tables)
        IN /\ \A i \in 0..(n - 1) :
                /\ DirectoryOffset(i) % 4 = 0
                /\ writer[1].tables[DirectoryTag(i)].entry.offset = DirectoryOffset(i)
                /\ \A k \in (DirectoryOffset(i) + DirectoryCompLength(i) + 1)
                            ..(DirectoryOffset(i) + Pad4(DirectoryCompLength(i))) :
                        k <= Len(disk.data) /\ disk.data[k] = <<0>>
           /\ U32At(disk.data, 24) % 4 = 0
           /\ U32At(disk.data, 36) % 4 = 0

\* a file in which a body of 14 bytes is followed by another body, by
\* metadata and by private data
C9_GapAfterHead ==
    /\ FileOfWriter
    /\ \E i, j \in 0..(Cardinality(DOMAIN writer[1].tables) - 1) :
        /\ DirectoryCompLength(i) = 14
        /\ DirectoryOffset(j) = DirectoryOffset(i) + 16
    /\ U32At(disk.data, 24) > 0
    /\ U32At(disk.data, 36) > U32At(disk.data, 24)

DirectoryAscending ==
    \A i \in 0..(Cardinality(DOMAIN writer[1].tables) - 2) :
        LexLess(DirectoryTag(i), DirectoryTag(i + 1))

\* C10 (as the specification states it): the directory is in ascending tag
\* order, and the offsets of the bodies are strictly increasing along the
\* write order, tables of length 0 included.
C10_OffsetsStrictlyIncreasing ==
    FileOfWriter =>
        /\ DirectoryAscending
        /\ \A t, u \in DOMAIN writer[1].tables :
            writer[1].tables[t].index < writer[1].tables[u].index
                => writer[1].tables[t].entry.offset < writer[1].tables[u].entry.offset

\* C10, amended: the directory is in ascending tag order, and along the
\* write order the offset of a later body is at least the offset of an
\* earlier one plus its stored length padded to 4: greater when the earlier
\* body is not empty, equal to it at the least when it is.
C10_OffsetsNonDecreasing ==
    FileOfWriter =>
        /\ DirectoryAscending
        /\ \A t, u \in DOMAIN writer[1].tables :
            writer[1].tables[t].index < writer[1].tables[u].index
                => writer[1].tables[u].entry.offset
                    >= writer[1].tables[t].entry.offset + Pad4(StoredLength(writer[1], t))

\* a file whose empty glyf body was written before the CFF body that comes
\* first in the directory, the two at one offset
C10_EmptyBodySharesOffset ==
    /\ FileOfWriter
    /\ DOMAIN writer[1].tables = {TagGlyf, TagCFF}
    /\ writer[1].tables[TagGlyf].index < writer[1].tables[TagCFF].index
    /\ StoredLength(writer[1], TagGlyf) = 0
    /\ writer[1].tables[TagGlyf].entry.offset = writer[1].tables[TagCFF].entry.offset
    /\ DirectoryTag(0) = TagCFF

\* the head table between setTable and close, when close is to recalculate
\* its checkSumAdjustment: stored as it came, with compLength 0
HeadPending(t) ==
    wstat = "open" /\ t = TagHead /\ writer[1].recalculateHeadChecksum
\* what the writer stores for the uncompressed bytes u when it compresses
Stored(u) == IF Len(zlibCompress(u)) < Len(u) THEN zlibCompress(u) ELSE u

\* C11: every table of a writer (the head table excepted while it waits for
\* close) has compLength <= origLength, origLength the number of its
\* uncompressed bytes and origChecksum the checksum of its uncompressed
\* bytes; its stored bytes are the zlib stream when that is strictly
\* shorter than the uncompressed bytes and the uncompressed bytes
\* otherwise, with compLength = origLength then; and every entry of the
\* directory in the file of a closed writer has compLength <= origLength.
C11_CompressionMonotone ==
    /\ wstat \in {"open", "closed"} =>
        \A t \in DOMAIN writer[1].tables :
            ~HeadPending(t) =>
                /\ writer[1].tables[t].entry.compLength <= writer[1].tables[t].entry.origLength
                /\ writer[1].tables[t].entry.origLength = Len(Uncompressed(writer[1], t))
                /\ writer[1].tables[t].entry.origChecksum
                        = calcTableChecksum(t, Uncompressed(writer[1], t))
                /\ writer[1].tables[t].data = Stored(Uncompressed(writer[1], t))
                /\ writer[1].tables[t].entry.compLength = Len(writer[1].tables[t].data)
                /\ (writer[1].tables[t].data = Uncompressed(writer[1], t)
                        => writer[1].tables[t].entry.compLength
                            = writer[1].tables[t].entry.origLength)
    /\ FileOfWriter =>
        \A i \in 1..Len(unpackDirectory(disk.data)) :
            unpackDirectory(disk.data)[i].compLength
                <= unpackDirectory(disk.data)[i].origLength

\* C11 witness: a file of a closed writer with a table whose stream is as
\* long as the table, stored uncompressed, and a table stored compressed
C11_BoundaryStored ==
    /\ FileOfWriter
    /\ \E t \in DOMAIN writer[1].tables :
        /\ Len(zlibCompress(Uncompressed(writer[1], t))) = Len(Uncompressed(writer[1], t))
        /\ writer[1].tables[t].entry.compLength = writer[1].tables[t].entry.origLength
    /\ \E t \in DOMAIN writer[1].tables :
        writer[1].tables[t].entry.compLength < writer[1].tables[t].entry.origLength

\* a step of close: the writer was open and is not any more, and no
\* setTable call was counted
CloseStep == wstat = "open" /\ wstat' # "open" /\ calls' = calls
\* an entry and its stored bytes that disagree
Nonconformant(t) ==
    \/ t.entry.compLength > t.entry.origLength
    \/ /\ t.entry.compLength < t.entry.origLength
       /\ \/ ~zlibOk(t.data)
          \/ Len(zlibDecompress(t.data)) # t.entry.origLength
          \/ t.entry.origChecksum # calcTableChecksum(t.entry.tag, zlibDecompress(t.data))
    \/ /\ t.entry.compLength = t.entry.origLength
       /\ \/ Len(t.data) # t.entry.origLength
          \/ t.entry.origChecksum # calcTableChecksum(t.entry.tag, t.data)
    \/ t.entry.compLength # Len(t.data)

TableDataEnd(w) == 44 + (20 * Cardinality(DOMAIN w.tables)) + BodiesLength(w)
\* the header fields of the file: metaOffset, metaLength, privOffset, privLength
FileMetaOffset == U32At(disk.data, 24)
FileMetaLength == U32At(disk.data, 28)
FilePrivOffset == U32At(disk.data, 36)
FilePrivLength == U32At(disk.data, 40)

\* C13: in the file of a closed writer metaOffset is the end of the table
\* data, a multiple of 4, when metadata was set and 0 otherwise; privOffset
\* is pad4(metaOffset + metaLength) when metadata and private data were
\* set, the end of the table data when only private data was set and 0
\* otherwise; offset and length of a block are both 0 or both not 0; the
\* bytes between the metadata and the private data are zero; and a file
\* that ends with the metadata is metaOffset + metaLength bytes long.
C13_BlockOffsets ==
    FileOfWriter =>
        LET w == writer[1]
            meta == MetadataLength(w)
            priv == PrivateLength(w)
        IN /\ TableDataEnd(w) % 4 = 0
           /\ FileMetaLength = meta
           /\ FilePrivLength = priv
           /\ FileMetaOffset = IF meta > 0 THEN TableDataEnd(w) ELSE 0
           /\ FilePrivOffset = IF priv = 0 THEN 0
                               ELSE IF meta > 0 THEN Pad4(FileMetaOffset + FileMetaLength)
                               ELSE TableDataEnd(w)
           /\ (FileMetaOffset = 0) = (FileMetaLength = 0)
           /\ (FilePrivOffset = 0) = (FilePrivLength = 0)
           /\ (meta > 0 /\ priv > 0) =>
                \A k \in (FileMetaOffset + FileMetaLength + 1)..FilePrivOffset :
                    disk.data[k] = <<0>>
           /\ (meta > 0 /\ priv = 0) =>
                /\ U32At(disk.data, 8) = FileMetaOffset + FileMetaLength
                /\ Len(disk.data) = FileMetaOffset + FileMetaLength

\* C13 witness: a file that ends with metadata whose length is not a
\* multiple of 4, after one table
C13_MetadataLast ==
    /\ FileOfWriter
    /\ Cardinality(DOMAIN writer[1].tables) = 1
    /\ MetadataLength(writer[1]) % 4 # 0
    /\ PrivateLength(writer[1]) = 0
    /\ Len(disk.data) % 4 # 0

\* C14 (as the specification states it): a file of a closed writer that
\* ends with private data is padded with zero bytes to a multiple of 4:
\* its length, and the length its header declares, are multiples of 4, and
\* the bytes after the private data are zero.
C14_PrivateDataPadded ==
    (FileOfWriter /\ PrivateLength(writer[1]) > 0) =>
        /\ Len(disk.data) % 4 = 0
        /\ U32At(disk.data, 8) % 4 = 0
        /\ Len(disk.data) = Pad4(FilePrivOffset + FilePrivLength)
        /\ \A k \in (FilePrivOffset + FilePrivLength + 1)..Len(disk.data) :
                disk.data[k] = <<0>>


\* a font opened from a file a writer wrote, after save wrote it back
SavedUnchanged ==
    /\ font # <<>> /\ font[1].reader # <<>>
    /\ font[1].reader[1].file \in WrittenFiles
    /\ wstat # "none"
\* two readers yield the same font
SameRead(a, b) ==
    /\ a.flavor = b.flavor
    /\ a.majorVersion = b.majorVersion /\ a.minorVersion = b.minorVersion
    /\ DOMAIN a.tables = DOMAIN b.tables
    /\ readerKeys(a) = readerKeys(b)
    /\ \A t \in DOMAIN a.tables \cap DOMAIN b.tables : a.tables[t] = b.tables[t]
    /\ readerPrivateData(a) = readerPrivateData(b)
    /\ a.metaLength = b.metaLength /\ a.metaOrigLength = b.metaOrigLength
    /\ getCompressedMetadata(a).data = getCompressedMetadata(b).data
    /\ (a.metaLength = 0) = (b.metaLength = 0)

\* C15: a well-formed WOFF file opened as a WOFFFont and saved with
\* reorderTables, recalculateHeadChecksum and recompressTables all False is
\* written so that reading it again yields the same flavor, version, tags,
\* body order, directory entries, private data and metadata; a file with no
\* metadata block is written back with none.
C15_RoundTripUnchanged ==
    SavedUnchanged =>
        /\ wstat = "closed"
        /\ WOFFReader(disk.data, 0).err = ""
        /\ SameRead(font[1].reader[1], WOFFReader(disk.data, 0).r[1])


\* the last call on the reader was reader[tag]
TableRead == got # <<>> /\ got[1].call = "getitem"

\* C16: reader[tag] reads compLength bytes at the entry's offset and returns
\* them inflated when compLength < origLength, otherwise their first
\* origLength bytes; a checksum that does not match origChecksum raises when
\* checkChecksums > 1, is only reported, with the data returned, when
\* checkChecksums = 1, and is not looked for when checkChecksums = 0.
C16_ReadTable ==
    TableRead =>
        LET r == font[1].reader[1]
            entry == r.tables[got[1].tag]
            stored == Slice(r.file, entry.offset, entry.offset + entry.compLength)
            plain == IF entry.compLength < entry.origLength
                     THEN zlibDecompress(stored) ELSE Slice(stored, 0, entry.origLength)
            mismatch == calcTableChecksum(got[1].tag, plain) # entry.origChecksum
        IN (entry.compLength < entry.origLength => zlibOk(stored)) =>
            /\ (r.checkChecksums > 1 /\ mismatch)
                  => (got[1].err # "" /\ got[1].data = <<>>)
            /\ ~(r.checkChecksums > 1 /\ mismatch)
                  => (got[1].err = "" /\ got[1].data = <<plain>>)
            /\ (r.checkChecksums = 1 /\ mismatch) <=> ("bad checksum" \in Range(got[1].printed))
            /\ r.checkChecksums = 0 => got[1].printed = <<>>
            /\ (r.file \in WrittenFiles /\ entry.compLength < entry.origLength)
                  => (zlibCompress(plain) = stored /\ Len(plain) = entry.origLength)
\* a compressed table read in soft mode from a file whose directory holds
\* another checksum: the mismatch is reported and the inflated data returned
C16_SoftMismatch ==
    /\ TableRead
    /\ got[1].tag = TagGlyf
    /\ font[1].reader[1].checkChecksums = 1
    /\ font[1].reader[1].tables[TagGlyf].compLength < font[1].reader[1].tables[TagGlyf].origLength
    /\ got[1].data = <<G16>>
    /\ got[1].printed = <<"bad checksum", "">>


\* the file starts with the four bytes "wOFF"
HasSignature(file) == Len(file) >= 4 /\ SubSeq(file, 1, 4) = Cells(<<119, 79, 70, 70>>)
\* the tags the directory of the reader's file names
FileDirectoryTags(r) ==
    {[k \in 1..4 |-> r.file[woffHeaderSize + (woffDirectoryEntrySize * (i - 1)) + k][1]]
        : i \in 1..r.numTables}

\* C17: keys() of a reader holds every tag of the directory exactly once, in
\* ascending order of the entries' offsets, whatever the order of the
\* directory; no reader is made from a file shorter than 44 bytes or one
\* that does not start with "wOFF": the constructor raises WOFFLibError.
C17_ReaderKeys ==
    /\ (got # <<>> /\ got[1].call = "open"
            /\ (Len(got[1].file) < 44 \/ ~HasSignature(got[1].file)))
          => /\ font = <<>>
             /\ got[1].err = "WOFFLibError: Not a properly formatted WOFF file."
    /\ (font # <<>> /\ font[1].reader # <<>>)
          => LET r == font[1].reader[1]
                 order == readerKeys(r)
             IN /\ Len(r.file) >= 44 /\ HasSignature(r.file)
                /\ Range(order) = FileDirectoryTags(r)
                /\ Len(order) = Cardinality(FileDirectoryTags(r))
                /\ \A i, j \in 1..Len(order) :
                      i < j => r.tables[order[i]].offset <= r.tables[order[j]].offset
\* a reader whose directory lists glyf before head and whose keys are head, glyf
C17_OffsetOrder ==
    /\ font # <<>> /\ font[1].reader # <<>>
    /\ readerEntry(font[1].reader[1].file, 1).tag = TagGlyf
    /\ readerEntry(font[1].reader[1].file, 2).tag = TagHead
    /\ readerKeys(font[1].reader[1]) = <<TagHead, TagGlyf>>
    /\ font[1].tableOrder = <<<<TagHead, TagGlyf>>>>


\* the tags of the font that are tables
RealTags(f) == fontTags(f) \ {GlyphOrder}
\* tags follows the order: the tags the order names come first, in its order
FollowsOrder(tags, order) ==
    \A i, j \in 1..Len(tags) : i < j =>
        /\ tags[j] \in Range(order) => tags[i] \in Range(order)
        /\ (tags[i] \in Range(order) /\ tags[j] \in Range(order))
              => firstIndex(order, tags[i]) < firstIndex(order, tags[j])
KeysLaw(f) ==
    /\ Head(keys(f)) = GlyphOrder
    /\ Cardinality({i \in 1..Len(keys(f)) : keys(f)[i] = GlyphOrder}) = 1
    /\ Range(Tail(keys(f))) = RealTags(f)
    /\ Len(Tail(keys(f))) = Cardinality(RealTags(f))
    /\ f.tableOrder # <<>> => FollowsOrder(Tail(keys(f)), f.tableOrder[1])

\* C18: keys() of a font holds "GlyphOrder" exactly once, as its first
\* element, then the tags of the set table order, then the other tags; a
\* step that changes neither the tables nor the order of the font leaves
\* keys() the same; save hands no "GlyphOrder" table to the writer, and
\* numTables is the number of the real tables.
C18_GlyphOrderFirst ==
    /\ [](font # <<>> => KeysLaw(font[1]))
    /\ []((font # <<>> /\ writer # <<>>)
            => /\ GlyphOrder \notin DOMAIN writer[1].tables
               /\ writer[1].numTables = Cardinality(RealTags(font[1]))
               /\ wstat = "closed" => U16At(disk.data, 12) = Cardinality(RealTags(font[1])))
    /\ [][(font # <<>> /\ font' # <<>> /\ font'[1].tables = font[1].tables
              /\ font'[1].tableOrder = font[1].tableOrder)
            => keys(font'[1]) = keys(font[1])]_vars
\* a font that holds a GlyphOrder table and a head table, with an order
\* that names GlyphOrder, saved as a file of one table
C18_SavedWithGlyphOrder ==
    /\ font # <<>> /\ wstat = "closed"
    /\ GlyphOrder \in DOMAIN font[1].tables
    /\ font[1].tableOrder = <<<<GlyphOrder, TagGlyf>>>>
    /\ keys(font[1]) = <<GlyphOrder, TagHead>>
    /\ writer[1].numTables = 1
    /\ U16At(disk.data, 12) = 1


\* the flavor of the validated file is none of OTTO, 0x00010000 and true
UnknownFlavor ==
    /\ report # <<>>
    /\ Len(report[1].testResults) >= 4
    /\ unpackHeader(disk.data).flavor \notin {FlavorOTTO, FlavorTrueType, FlavorTrue}

\* C19 (as the specification states it): for a flavor that is none of OTTO,
\* 0x00010000 and true, Header - Flavor logs a WARNING, not an ERROR, and
\* the run goes on to Header - Length.
C19_UnknownFlavorWarns ==
    UnknownFlavor =>
        /\ GroupTypes(4) = <<"WARNING">>
        /\ ~report[1].testResults[4].stop
        /\ Len(report[1].testResults) >= 5


\* the least length the header may declare for what the file's header and
\* directory say
RequiredLength(data) ==
    44 + (20 * U16At(data, 12))
       + SumSeq([i \in 1..U16At(data, 12) |-> Pad4(U32At(data, 44 + (20 * (i - 1)) + 8))])
       + (IF U32At(data, 40) > 0 THEN Pad4(U32At(data, 28)) ELSE U32At(data, 28))
       + U32At(data, 40)

\* C20: Header - Length logs an ERROR and stops the run when the declared
\* length is not the number of bytes of the file, or is less than 44 +
\* 20*numTables + the padded compLengths + the metadata length (padded when
\* private data follows) + privLength; otherwise it logs PASS and the run
\* goes on.
C20_HeaderLengthTest ==
    (report # <<>> /\ Len(report[1].testResults) >= 5) =>
        \* a length below 44 + 20*numTables is below the whole sum, whose
        \* other terms are not negative
        IF \/ U32At(disk.data, 8) # Len(disk.data)
           \/ U32At(disk.data, 8) < 44 + (20 * U16At(disk.data, 12))
           \/ U32At(disk.data, 8) < RequiredLength(disk.data)
        THEN /\ GroupTypes(5) = <<"ERROR">>
             /\ report[1].testResults[5].stop
             /\ Len(report[1].testResults) = 5
             /\ report[1].haveReadError
        ELSE /\ GroupTypes(5) = <<"PASS">>
             /\ ~report[1].testResults[5].stop
             /\ Len(report[1].testResults) >= 6
\* a file as long as its header says, with all of its directory, whose
\* blocks need more bytes than it has
C20_BlocksDoNotFit ==
    /\ report # <<>> /\ Len(report[1].testResults) = 5
    /\ U32At(disk.data, 8) = Len(disk.data)
    /\ Len(disk.data) >= 44 + (20 * U16At(disk.data, 12))
    /\ Len(disk.data) < RequiredLength(disk.data)
    /\ GroupTypes(5) = <<"ERROR">>
    /\ report[1].testResults[5].stop


\* the run reached the i-th test
Reached(i) == report # <<>> /\ Len(report[1].testResults) >= i
\* the number of tables the header of the validated file declares
FileNumTables == U16At(disk.data, 12)

\* C21 (as the specification states it): Directory - Table Order logs PASS
\* only when the tags of the directory are strictly ascending, so a
\* directory that repeats a tag gets an ERROR; the test never stops the run.
C21_StrictlyAscending ==
    Reached(10) =>
        /\ GroupTypes(10) = IF \A i \in 0..(FileNumTables - 2) :
                                    LexLess(DirectoryTag(i), DirectoryTag(i + 1))
                            THEN <<"PASS">> ELSE <<"ERROR">>
        /\ ~report[1].testResults[10].stop
        /\ Reached(11)
\* C21 (amended): Directory - Table Order logs PASS exactly when no tag of
\* the directory is below the tag before it, a repeated tag included, and
\* ERROR otherwise; the test never stops the run.
C21_Ascending ==
    Reached(10) =>
        /\ GroupTypes(10) = IF \A i \in 0..(FileNumTables - 2) :
                                    ~LexLess(DirectoryTag(i + 1), DirectoryTag(i))
                            THEN <<"PASS">> ELSE <<"ERROR">>
        /\ ~report[1].testResults[10].stop
        /\ Reached(11)
\* a directory that names glyf twice and passes
C21_RepeatedTagPasses ==
    /\ Reached(11)
    /\ FileNumTables = 2
    /\ DirectoryTag(0) = TagGlyf /\ DirectoryTag(1) = TagGlyf
    /\ GroupTypes(10) = <<"PASS">>


\* the i-th directory entry (from 0) of the validated file lies outside
\* [44 + 20*numTables, length]
OutsideBorders(i) ==
    \/ DirectoryOffset(i) < 44 + (20 * FileNumTables)
    \/ DirectoryOffset(i) > U32At(disk.data, 8)
    \/ DirectoryOffset(i) + DirectoryCompLength(i) > U32At(disk.data, 8)

\* C22: Directory - Table Borders logs one finding per directory entry, an
\* ERROR when the entry's offset is below 44 + 20*numTables or beyond the
\* header's length or offset + compLength is beyond that length, a PASS
\* otherwise; it stops the run exactly when an entry got an ERROR, so a test
\* that runs after it finds every entry inside the borders.
C22_TableBorders ==
    Reached(11) =>
        /\ Len(report[1].testResults[11].findings) = FileNumTables
        /\ \A i \in 0..(FileNumTables - 1) :
              /\ GroupTypes(11)[i + 1] = IF OutsideBorders(i) THEN "ERROR" ELSE "PASS"
              /\ report[1].testResults[11].findings[i + 1].about = DirectoryTag(i)
        /\ report[1].testResults[11].stop = (\E i \in 0..(FileNumTables - 1) : OutsideBorders(i))
        /\ report[1].testResults[11].stop => (Len(report[1].testResults) = 11 /\ report[1].haveReadError)
        /\ Reached(12) => \A i \in 0..(FileNumTables - 1) : ~OutsideBorders(i)
\* an entry that starts inside the file and ends behind it stops the run;
\* the other entry passes
C22_EndsBehindFile ==
    /\ Reached(11)
    /\ Len(report[1].testResults) = 11
    /\ DirectoryOffset(0) = 104 /\ DirectoryCompLength(0) = 11
    /\ GroupTypes(11) = <<"ERROR", "PASS">>
    /\ report[1].testResults[11].stop


\* the end of what lies before a block of the validated file, padded to 4:
\* the furthest of the end of the directory and the ends of the tables,
\* and, for the private data, of the end of the metadata when the header
\* has a metadata offset
PrecedingEnd(withMetadata) ==
    Pad4(SeqMax(<<44 + (20 * FileNumTables)>>
                \o [i \in 1..FileNumTables |->
                        DirectoryOffset(i - 1) + DirectoryCompLength(i - 1)]
                \o (IF withMetadata /\ FileMetaOffset # 0
                    THEN <<FileMetaOffset + FileMetaLength>> ELSE <<>>)))
\* what the claim expects of the offset and length test of one block
BlockVerdict(offset, length, withMetadata) ==
    IF offset = 0 /\ length = 0 THEN "PASS"
    ELSE IF offset = 0 \/ length = 0 THEN "ERROR"
    ELSE IF /\ offset % 4 = 0
            /\ offset = PrecedingEnd(withMetadata)
            /\ offset + length <= U32At(disk.data, 8)
    THEN "PASS" ELSE "ERROR"

\* C23: the offset and length test of the metadata and the one of the
\* private data each log one finding and never stop: PASS when offset and
\* length are both 0, ERROR when one of them is 0, and otherwise PASS exactly
\* when the offset is a multiple of 4, is the padded end of what precedes
\* the block, and offset + length is within the header's length.
C23_BlockOffsetAndLength ==
    /\ Reached(20) =>
        /\ GroupTypes(20) = <<BlockVerdict(FileMetaOffset, FileMetaLength, FALSE)>>
        /\ ~report[1].testResults[20].stop
        /\ Reached(21)
    /\ Reached(25) =>
        /\ GroupTypes(25) = <<BlockVerdict(FilePrivOffset, FilePrivLength, TRUE)>>
        /\ ~report[1].testResults[25].stop
        /\ ~report[1].haveReadError
\* private data that starts on a boundary behind the metadata but not where
\* the metadata ends: an ERROR after a PASS for the metadata
C23_PrivateDataTooFar ==
    /\ Reached(25)
    /\ FileMetaOffset = 80 /\ FileMetaLength = 11
    /\ FilePrivOffset = 96 /\ FilePrivLength = 3
    /\ GroupTypes(20) = <<"PASS">>
    /\ GroupTypes(25) = <<"ERROR">>


\* the bytes the header of the validated file gives as its metadata
FileMetadata == Slice(disk.data, FileMetaOffset, FileMetaOffset + FileMetaLength)

\* C24: when the header has a metadata offset and length and the block is
\* no zlib stream, Metadata - Decompression logs an ERROR and stops the run:
\* no later test has a group and haveReadError is set; when the header has
\* no metadata, each of the four metadata tests after Offset and Length
\* logs one NOTE and the run goes on to the private data.
C24_MetadataDecompression ==
    Reached(21) =>
        IF FileMetaOffset = 0 \/ FileMetaLength = 0
        THEN /\ Reached(25)
             /\ \A i \in 21..24 :
                    GroupTypes(i) = <<"NOTE">> /\ ~report[1].testResults[i].stop
        ELSE IF ~zlibOk(FileMetadata)
        THEN /\ GroupTypes(21) = <<"ERROR">>
             /\ report[1].testResults[21].stop
             /\ Len(report[1].testResults) = 21
             /\ report[1].haveReadError
        ELSE GroupTypes(21) = <<"PASS">> /\ ~report[1].testResults[21].stop
\* the file of a writer with the first byte of its metadata overwritten:
\* the offset and length pass, the decompression ends the run
C24_FirstByteFlipped ==
    /\ Reached(21)
    /\ FileMetaOffset = 80 /\ FileMetaLength = 11
    /\ disk.data[81] = <<1>>
    /\ GroupTypes(20) = <<"PASS">>
    /\ GroupTypes(21) = <<"ERROR">>
    /\ Len(report[1].testResults) = 21
    /\ report[1].haveReadError

(* ---------------- C25: languages of the text children ---------------- *)

\* the document the file carries, and its children with text children
FileTree == fromstring(inflated(FileMetadata))
StructureFindings == report[1].testResults[24].findings
TextParents == {"description", "license", "copyright", "trademark"}
Texts(element) == SelectSeq(element.children, LAMBDA c : c.tag = "text")
\* the buckets of an element: one for each written lang value, one for the
\* text children that carry no lang attribute
WrittenLangs(element) ==
    {Texts(element)[i].attrib["lang"] :
        i \in {j \in 1..Len(Texts(element)) : "lang" \in DOMAIN Texts(element)[j].attrib}}
Carrying(element, lang) ==
    {i \in 1..Len(Texts(element)) :
        /\ "lang" \in DOMAIN Texts(element)[i].attrib
        /\ Texts(element)[i].attrib["lang"] = lang}
Unmarked(element) ==
    {i \in 1..Len(Texts(element)) : "lang" \notin DOMAIN Texts(element)[i].attrib}
RepeatedLangs(element) ==
    {lang \in WrittenLangs(element) : Cardinality(Carrying(element, lang)) > 1}
RepeatedBuckets(element) ==
    Cardinality(RepeatedLangs(element))
    + (IF Cardinality(Unmarked(element)) > 1 THEN 1 ELSE 0)
LanguageErrors(tag) ==
    {i \in 1..Len(StructureFindings) :
        /\ StructureFindings[i].type = "ERROR"
        /\ StructureFindings[i].message = "More than one instance of language in the element."
        /\ StructureFindings[i].names[2] = tag}

\* C25: for a description, license, copyright or trademark element the
\* language check logs one ERROR for each lang value carried by more than one
\* text child, naming that value and the parent's tag, and nothing when all
\* buckets are distinct; the text children without a lang attribute are a
\* bucket of their own, distinct from every written lang value
C25_OneErrorPerRepeatedLanguage ==
    (Reached(24) /\ FileMetaOffset # 0 /\ FileMetaLength # 0) =>
        \A c \in 1..Len(FileTree.children) :
            FileTree.children[c].tag \in TextParents =>
                /\ Cardinality(LanguageErrors(FileTree.children[c].tag))
                       = RepeatedBuckets(FileTree.children[c])
                /\ \A lang \in RepeatedLangs(FileTree.children[c]) :
                       Cardinality({i \in LanguageErrors(FileTree.children[c].tag) :
                                       StructureFindings[i].names[1] = lang}) = 1

(* ---------------- C26: the PASS of an element checker ---------------- *)

ElementPasses(name) ==
    {i \in 1..Len(StructureFindings) :
        /\ StructureFindings[i].type = "PASS"
        /\ StructureFindings[i].message = "The element is properly formatted."
        /\ StructureFindings[i].names = <<name>>}
\* a credits element with no attribute, no text and only credit children,
\* at least one
WellFormedCredits(element) ==
    /\ element.tag = "credits"
    /\ DOMAIN element.attrib = {}
    /\ element.text = ""
    /\ element.children # <<>>
    /\ \A i \in 1..Len(element.children) : element.children[i].tag = "credit"

\* C26: a per-element checker logs exactly one PASS for its element when none
\* of its checks reported a problem and none otherwise; a well-formed credits
\* element (no attributes, no text, at least one credit child) gets a PASS of
\* its own
C26_WellFormedCreditsPasses ==
    (Reached(24) /\ FileMetaOffset # 0 /\ FileMetaLength # 0) =>
        \A c \in 1..Len(FileTree.children) :
            FileTree.children[c].tag = "credits" =>
                Cardinality(ElementPasses("credits"))
                    = (IF WellFormedCredits(FileTree.children[c]) THEN 1 ELSE 0)

(* ---------------- C27: calcPaddingLength ---------------- *)

\* C27: calcPaddingLength(n) is the number of zero bytes that bring n up to
\* the next multiple of 4: a value in 0..3 that is 0 when n is a multiple of
\* 4, so that n + calcPaddingLength(n) = (n + 3) & ~3
C27_PaddingToNextMultiple ==
    (got # <<>> /\ got[1].called) =>
        /\ got[1].padding \in 0..3
        /\ (got[1].length % 4 = 0 => got[1].padding = 0)
        /\ got[1].length + got[1].padding = calc4BytePaddedLength(got[1].length)
        /\ got[1].padded = calc4BytePaddedLength(got[1].length)

(* ---------------- C28: _testOverlaps ---------------- *)

TestedDirectory == got[1].tableDirectory
DistinctTags ==
    \A i, j \in 1..Len(TestedDirectory) :
        i # j => strip(TestedDirectory[i].tag) # strip(TestedDirectory[j].tag)
\* the byte ranges [offset, offset + length) of two entries share a byte
SharesByte(a, b) ==
    \E byte \in 0..15 :
        /\ a.offset <= byte /\ byte < a.offset + a.length
        /\ b.offset <= byte /\ byte < b.offset + b.length
Reported(a, b) ==
    {k \in 1..Len(got[1].errors) :
        got[1].errors[k] = sortedPair(strip(a.tag), strip(b.tag))}

\* C28: _testOverlaps reports a pair of tables if and only if their byte
\* ranges share at least one byte, and each such pair once; it reports nothing
\* for a table of length 0 or for two tables that only touch
C28_ReportsSharedBytes ==
    (got # <<>> /\ got[1].called /\ DistinctTags) =>
        \A i, j \in 1..Len(TestedDirectory) :
            i < j =>
                Cardinality(Reported(TestedDirectory[i], TestedDirectory[j]))
                    = (IF SharesByte(TestedDirectory[i], TestedDirectory[j]) THEN 1 ELSE 0)

(* ---------------- C29: the write indices of setTable ---------------- *)

\* C29: after any sequence of setTable calls, calls that replace a tag and
\* calls that add tags afterwards included, the stored tables carry pairwise
\* distinct write indices, so the write order of close is one total order
C29_DistinctWriteIndices ==
    writer # <<>> =>
        /\ \A t, u \in DOMAIN writer[1].tables :
               t # u => writer[1].tables[t].index # writer[1].tables[u].index
        /\ Cardinality(tableOrder(writer[1])) = 1

(* ---------------- C30: closing twice ---------------- *)

\* C30: a second close with no setTable, setMetadata or setPrivateData call
\* in between writes the same bytes as the first and leaves the header fields
\* length and totalSfntSize and the stored head table unchanged
C30_CloseIdempotent ==
    wstat = "closed again" =>
        /\ err = ""
        /\ disk.data = got[1].data
        /\ writer[1].length = got[1].length
        /\ writer[1].totalSFNTSize = got[1].totalSFNTSize
        /\ (TagHead \in DOMAIN writer[1].tables =>
                writer[1].tables[TagHead] = got[1].tables[TagHead])

====
